---- MODULE Spec2Model ----
(***************************************************************************)
(* A model of the scenario generator (frontend/src/utils/                  *)
(* ScenarioGenerator.ts), of the optimize pipeline (frontend/src/          *)
(* services/api.ts), of the anchor queries (services/OverpassService.ts),  *)
(* of the financial summary (services/ContextBuilder.ts) and of the two    *)
(* buttons of App.tsx of Seoul-Micromobility-Optimizer.                    *)
(*                                                                         *)
(* Coordinates are points of a local grid whose unit is one metre (the     *)
(* code's division by 111000 and 88000 turns metres into degrees).         *)
(* Every Math.random() call is answered by a random stream: a stream is    *)
(* picked once per run (seed) and each call site reads the stream at an    *)
(* index of its own.  JavaScript code between two awaits runs without      *)
(* interruption, so every action is one such stretch of code.              *)
(***************************************************************************)
EXTENDS Integers, Sequences, FiniteSets, TLC

VARIABLES
    \* ---- ScenarioGenerator.ts ----
    count,                      \* the argument of generateScenario
    seed,                       \* the random stream of this run
    gpc,                        \* where generateScenario stands
    cachedDistrictBoundaries,   \* module-level cache: Null or Some(value)
    cachedSubwayExitPOIs,       \* module-level cache: Null or Some(value)
    cachedBusStopPOIs,          \* module-level cache: Null or Some(value)
    districtGeoJSON,            \* local of generateScenario
    highRiskScooters,           \* local of generateScenario
    commercialLocations,        \* local of generateScenario
    genResult,                  \* what generateScenario resolved with
    issued,                     \* the remote requests this generateScenario call has made
    lastError,                  \* what the last settled generateScenario call rejected with
    \* ---- api.ts, getDistanceMatrix ----
    inaviKey,                   \* INAVI_API_KEY is set
    mLocations,                 \* the argument of getDistanceMatrix
    mpc,                        \* where getDistanceMatrix stands
    mRemote,                    \* what the matrix service did in this call
    mResult,                    \* what getDistanceMatrix returned
    \* ---- api.ts, solveVrp ----
    scooters,                   \* the argument of solveVrp
    truckCount,                 \* the argument of solveVrp
    vpc,                        \* where solveVrp stands
    workingScooters,            \* local of solveVrp
    solver,                     \* what the solver service did in this call
    vrpResponse,                \* local of solveVrp
    roadGeometry,               \* per route of the response: the segments fetched so far
    parsedRoutes,               \* per route of the response: Null or Some(route)
    routes,                     \* what solveVrp resolved with
    \* ---- services/OverpassService.ts, one anchor query ----
    anchorCache,                \* module-level Map: a set of <<key, value>>
    redZonePOICache,            \* module-level Map: a set of <<key, value>>
    qCategory,                  \* which fetch function was called
    qBounds,                    \* its argument
    qpc,                        \* where the call stands
    qTried,                     \* what each endpoint contacted so far answered, in order
    qData,                      \* local `data`: Null or Some(response)
    qLastError,                 \* local `lastError`: Null or Some(error)
    qOutcome,                   \* what the call settled with
    qCompleted,                 \* per key, what the last call that resolved returned
    qCalls,                     \* the calls made so far
    \* ---- ScenarioGenerator.ts, fetchDistrictBoundaries called by loadPOIs and by generateScenario ----
    bCall,                      \* per caller: where its fetchDistrictBoundaries call stands
    bStarted,                   \* per caller: the calls it has made
    bFetches,                   \* the boundary fetches issued so far
    bWrites,                    \* the writes of cachedDistrictBoundaries so far
    bOverlapped,                \* a call has started fetching while another was fetching
    \* ---- App.tsx, the state of App ----
    appScooters,                \* state `scooters`
    appHubs,                    \* state `hubs`
    appRoutes,                  \* state `routes`
    isOptimizing,               \* state `isOptimizing`
    isLoadingScenario,          \* state `isLoadingScenario`
    errorMessage,               \* state `errorMessage`: Null or Some(text)
    optArgument                 \* the population the pending handleOptimize call passed to solveVrp

genVars == <<count, seed, gpc, cachedDistrictBoundaries, cachedSubwayExitPOIs,
             cachedBusStopPOIs, districtGeoJSON, highRiskScooters,
             commercialLocations, genResult, issued, lastError>>

mxVars == <<inaviKey, mLocations, mpc, mRemote, mResult>>

vrpVars == <<scooters, truckCount, vpc, workingScooters, solver, vrpResponse,
             roadGeometry, parsedRoutes, routes>>

ovpVars == <<anchorCache, redZonePOICache, qCategory, qBounds, qpc, qTried, qData,
             qLastError, qOutcome, qCompleted, qCalls>>

bndVars == <<bCall, bStarted, bFetches, bWrites, bOverlapped>>

appVars == <<appScooters, appHubs, appRoutes, isOptimizing, isLoadingScenario, errorMessage, optArgument>>

extVars == <<ovpVars, bndVars, appVars>>

vars == <<genVars, mxVars, vrpVars, extVars>>

\* getDistanceMatrix has not been called
MxOff ==
    /\ mLocations = << >>
    /\ mpc = "idle"
    /\ mRemote = "none"
    /\ mResult = [distanceMatrix |-> << >>, durationMatrix |-> << >>]

\* solveVrp has not been called
VrpOff ==
    /\ scooters = << >>
    /\ truckCount = 0
    /\ vpc = "idle"
    /\ workingScooters = << >>
    /\ solver = "none"
    /\ vrpResponse = [routes |-> << >>]
    /\ roadGeometry = << >>
    /\ parsedRoutes = << >>
    /\ routes = << >>

\* A nullable value is the empty set (null) or the set of the one value.
Null == {}
Some(v) == {v}
The(o) == CHOOSE v \in o : TRUE

\* a local that has not been assigned yet
NoBoundaries == [type |-> "FeatureCollection", features |-> << >>, ref |-> 0]

\* no anchor query has been made
NoOutcome == [kind |-> "none", value |-> << >>]
OvpOff ==
    /\ anchorCache = {}
    /\ redZonePOICache = {}
    /\ qCategory = "none"
    /\ qBounds = << >>
    /\ qpc = "idle"
    /\ qTried = << >>
    /\ qData = Null
    /\ qLastError = Null
    /\ qOutcome = NoOutcome
    /\ qCompleted = {}
    /\ qCalls = 0

\* the callers of fetchDistrictBoundaries: the mount effect of App and the
\* Scenario button
Callers == {"loadPOIs", "generateScenario"}

NoCall == [pc |-> "idle", sawEntry |-> FALSE, fetched |-> FALSE, wrote |-> FALSE,
           result |-> Null]

\* fetchDistrictBoundaries has not been called
BndOff ==
    /\ bCall = [c \in Callers |-> NoCall]
    /\ bStarted = [c \in Callers |-> 0]
    /\ bFetches = 0
    /\ bWrites = 0
    /\ bOverlapped = FALSE

\* App has just mounted
AppOff ==
    /\ appScooters = << >>
    /\ appHubs = << >>
    /\ appRoutes = << >>
    /\ isOptimizing = FALSE
    /\ isLoadingScenario = FALSE
    /\ errorMessage = Null
    /\ optArgument = << >>

ExtOff == OvpOff /\ BndOff /\ AppOff

(***************************************************************************)
(* Bounds of the model.                                                    *)
(***************************************************************************)
MaxSeed == 2            \* random streams 0..MaxSeed
MaxTrucks == 4          \* fleets of 1..MaxTrucks vehicles

(***************************************************************************)
(* Program constants.                                                      *)
(***************************************************************************)
MinCount == 10
MaxCount == 200
HIGH_RISK_PERCENT == 15
COMMERCIAL_PERCENT == 65
RESIDENTIAL_PERCENT == 20
BUS_STOP_PERCENT == 25
RED_ZONE_RADIUS_METERS == 20
TOWING_FINE == 40000
BATTERY_SWAP_REVENUE == 5000
MaxAttempts == 10
DocumentedRedZoneMeters == 5

RandVals == {0, 1, 2, 3}        \* Math.random() = v / 4
RandDen == Cardinality(RandVals)

Max(a, b) == IF a >= b THEN a ELSE b
Min(a, b) == IF a <= b THEN a ELSE b
Abs(a) == IF a >= 0 THEN a ELSE 0 - a

\* floor(sqrt(n)) for 0 <= n < 4096
RECURSIVE ISqrtIn(_, _, _)
ISqrtIn(n, lo, hi) ==
    IF lo >= hi THEN lo
    ELSE LET mid == (lo + hi + 1) \div 2
         IN  IF mid * mid <= n THEN ISqrtIn(n, mid, hi) ELSE ISqrtIn(n, lo, mid - 1)
ISqrt(n) == ISqrtIn(n, 0, 64)

(***************************************************************************)
(* Math.random(): the value the stream `s` gives at index k.  Stream 0 is  *)
(* all 0, stream 1 is all 3/4, the others vary.                            *)
(***************************************************************************)
Rnd(s, k) ==
    IF s = 0 THEN 0
    ELSE IF s = 1 THEN RandDen - 1
    ELSE (k * (2 * s - 3) + (k \div RandDen)) % RandDen

\* Math.floor(Math.random() * n)
RndIndex(u, n) == (u * n) \div RandDen

(***************************************************************************)
(* The world outside the program: the district polygons of the boundary    *)
(* dataset and the nodes the anchor query service knows.                   *)
(***************************************************************************)
Rect(a, b, c, d) == [latLo |-> a, latHi |-> b, lngLo |-> c, lngHi |-> d]
Pt(a, b) == [lat |-> a, lng |-> b]

\* The three target districts: two polygons and one multi-polygon.
SeoulDistricts ==
    << [name |-> "Gangnam-gu", parts |-> {Rect(0, 200, 0, 200)}],
       [name |-> "Seocho-gu",  parts |-> {Rect(0, 200, 300, 400)}],
       [name |-> "Songpa-gu",  parts |-> {Rect(300, 320, 0, 20), Rect(300, 400, 300, 400)}] >>

POI(p, t) == [location |-> p, type |-> t]

\* What fetchRedZonePOIs can resolve with.
SeoulRedZonePOIs ==
    << POI(Pt(100, 100), "subway_exit"), POI(Pt(100, 0), "subway_exit"),
       POI(Pt(500, 500), "subway_exit"), POI(Pt(310, 10), "bus_stop"),
       POI(Pt(100, 250), "bus_stop"), POI(Pt(50, 350), "bus_stop") >>

RedZoneWorlds ==
    { SeoulRedZonePOIs,
      << POI(Pt(100, 100), "subway_exit") >>,
      << >> }

\* What fetchCommercialAnchors and fetchResidentialAnchors can resolve with.
SeoulCommercialAnchors == << Pt(50, 50), Pt(250, 250), Pt(310, 10), Pt(150, 390) >>

CommercialWorlds ==
    { SeoulCommercialAnchors,
      << Pt(310, 10) >>,
      << >> }

SeoulResidentialAnchors == << Pt(150, 150), Pt(0, 0), Pt(600, 0), Pt(350, 350) >>

ResidentialWorlds ==
    { SeoulResidentialAnchors,
      << >> }

(***************************************************************************)
(* ScenarioGenerator.ts                                                    *)
(***************************************************************************)
\* turf.booleanPointInPolygon on a Polygon or MultiPolygon feature
booleanPointInPolygon(point, feature) ==
    \E r \in feature.parts :
        /\ r.latLo <= point.lat /\ point.lat <= r.latHi
        /\ r.lngLo <= point.lng /\ point.lng <= r.lngHi

isPointInDistricts(point, geo) ==
    \E i \in 1..Len(geo.features) : booleanPointInPolygon(point, geo.features[i])

\* cos and sin of Math.random() * 2 * PI at the four values of the stream
CosQ(u) == CASE u = 0 -> 1 [] u = 1 -> 0 [] u = 2 -> 0 - 1 [] OTHER -> 0
SinQ(u) == CASE u = 0 -> 0 [] u = 1 -> 1 [] u = 2 -> 0 [] OTHER -> 0 - 1

\* the radius sampled in the band [minR, maxR], in whole metres
SampleRadius(minR, maxR, u) ==
    ISqrt((u * (maxR * maxR - minR * minR)) \div RandDen + minR * minR)

generatePointNearLocation(center, minR, maxR, uAngle, uRadius) ==
    LET radius == SampleRadius(minR, maxR, uRadius)
    IN  [lat |-> center.lat + radius * CosQ(uAngle),
         lng |-> center.lng + radius * SinQ(uAngle)]

\* The loop of generateValidPointNearAnchor from attempt `a` on; `k0` is the
\* stream index of the first attempt.  Returns the point, the number of
\* candidates sampled and whether the anchor itself was returned.
RECURSIVE ValidPointFrom(_, _, _, _, _, _, _)
ValidPointFrom(anchor, minR, maxR, geo, s, k0, a) ==
    IF a >= MaxAttempts
    THEN [location |-> anchor, attempts |-> a, fallback |-> TRUE]
    ELSE LET jitteredPoint == generatePointNearLocation(anchor, minR, maxR,
                                  Rnd(s, k0 + 2 * a), Rnd(s, k0 + 2 * a + 1))
         IN  IF isPointInDistricts(jitteredPoint, geo)
             THEN [location |-> jitteredPoint, attempts |-> a + 1, fallback |-> FALSE]
             ELSE ValidPointFrom(anchor, minR, maxR, geo, s, k0, a + 1)

\* a variant of generateValidPointNearAnchor: the first candidate is taken
\* untested
generateUntestedPointNearAnchor(anchor, minR, maxR, geo, s, k0) ==
    [location |-> generatePointNearLocation(anchor, minR, maxR, Rnd(s, k0), Rnd(s, k0 + 1)),
     attempts |-> 1, fallback |-> FALSE]

generateValidPointNearAnchor(anchor, minR, maxR, geo, s, k0) ==
    ValidPointFrom(anchor, minR, maxR, geo, s, k0, 0)

countHighRiskOf(n) == Max(1, (n * HIGH_RISK_PERCENT) \div 100)
\* a variant of countNearBusStopOf: the bus-stop share rounded up
countNearBusStopCeil(n) == (countHighRiskOf(n) * BUS_STOP_PERCENT + 99) \div 100
countNearBusStopOf(n) == Max(0, (countHighRiskOf(n) * BUS_STOP_PERCENT) \div 100)
countNearSubwayOf(n) == countHighRiskOf(n) - countNearBusStopOf(n)
countCommercialOf(n) == (n * COMMERCIAL_PERCENT) \div 100
countResidentialOf(n) == (n * RESIDENTIAL_PERCENT) \div 100

\* The stream index of draw j (0: the anchor, 1..20: the attempts, 21: the
\* battery level) of entity i of the loop `site`.
DrawIndex(site, i, j) == site * 5000 + i * 23 + j

\* One pass of a placement loop of generateScenario: the anchor choice and
\* generateValidPointNearAnchor.  Besides the location the result records
\* the loop (batch), the anchor, the radii, the stream index of the first
\* candidate, the number of candidates sampled and whether the anchor
\* itself was returned; the program keeps the location.
PlaceNear(batch, anchors, minR, maxR, geo, s, site, i) ==
    LET anchor == anchors[RndIndex(Rnd(s, DrawIndex(site, i, 0)), Len(anchors)) + 1]
        placed == generateValidPointNearAnchor(anchor, minR, maxR, geo, s,
                                               DrawIndex(site, i, 1))
    IN  [location |-> placed.location, batch |-> batch, anchor |-> anchor,
         attempts |-> placed.attempts, fallback |-> placed.fallback,
         minRadius |-> minR, maxRadius |-> maxR, first |-> DrawIndex(site, i, 1)]

HighRiskMaxRadius == RED_ZONE_RADIUS_METERS

\* The i-th scooter of a loop of batch A (lines 150-162 and 165-177)
HighRiskScooter(batch, prefix, i, pois, geo, s, site) ==
    LET p == PlaceNear(batch, pois, 0, HighRiskMaxRadius, geo, s, site, i)
    IN  [id |-> <<prefix, i>>,
         location |-> p.location,
         state |-> "C",
         batteryLevel |-> RndIndex(Rnd(s, DrawIndex(site, i, 21)), 50) + 20,
         service_time |-> 5,
         score |-> TOWING_FINE,
         placed |-> p]

\* The i-th low-battery scooter (lines 245-252) at the placed location p
LowBatteryScooter(i, p, s) ==
    [id |-> <<"S-LB", i>>,
     location |-> p.location,
     state |-> "B",
     batteryLevel |-> RndIndex(Rnd(s, DrawIndex(5, i, 21)), 20),
     service_time |-> 1,
     score |-> BATTERY_SWAP_REVENUE,
     placed |-> p]

\* anchors[Math.floor(Math.random() * 0)] is undefined when the list is
\* empty and reading its lat raises a TypeError: a loop that runs at least
\* once over an empty anchor list throws.
LoopThrows(n, anchors) == n > 0 /\ Len(anchors) = 0

\* a variant of FilterInside: the anchors used as fetched, unfiltered
FilterNothing(points, geo) == points
FilterInside(points, geo) ==
    LET Inside(p) == isPointInDistricts(p, geo) IN SelectSeq(points, Inside)

\* allScooters.sort(() => Math.random() - 0.5): the order that results is
\* the engine's; one of four rearrangements, drawn from the stream.
\* ShuffleSource(i, n, u) is the old index of the element at new index i.
ShuffleSource(i, n, u) ==
    LET h == n \div 2
    IN  CASE u = 0 -> i
          [] u = 1 -> n + 1 - i
          [] u = 2 -> ((i - 1 + h) % n) + 1
          [] OTHER -> IF i <= n - h THEN 2 * i - 1 ELSE 2 * (i - (n - h))

(***************************************************************************)
(* The boundary dataset: every municipality of Seoul, of which             *)
(* fetchDistrictBoundaries keeps the three target districts.               *)
(***************************************************************************)
SeoulGeoJSONFeatures ==
    SeoulDistricts \o << [name |-> "Jongno-gu", parts |-> {Rect(450, 650, 450, 650)}] >>

TargetDistricts == {"Gangnam-gu", "Seocho-gu", "Songpa-gu"}

FilteredBoundaries ==
    LET IsTarget(f) == f.name \in TargetDistricts
    IN  [type |-> "FeatureCollection", features |-> SelectSeq(SeoulGeoJSONFeatures, IsTarget)]

Locations(pois, t) ==
    LET OfType(p) == p.type = t
        sel == SelectSeq(pois, OfType)
    IN  [i \in 1..Len(sel) |-> sel[i].location]

(***************************************************************************)
(* generateScenario, one action per stretch of code between two awaits.    *)
(***************************************************************************)
\* no generateScenario call has been made
GenOff ==
    /\ count = 0
    /\ seed = 0
    /\ gpc = "idle"
    /\ cachedDistrictBoundaries = Null
    /\ cachedSubwayExitPOIs = Null
    /\ cachedBusStopPOIs = Null
    /\ districtGeoJSON = NoBoundaries
    /\ highRiskScooters = << >>
    /\ commercialLocations = << >>
    /\ genResult = << >>
    /\ issued = {}
    /\ lastError = "none"

\* the generator reads no credential
GenInit ==
    /\ GenOff
    /\ MxOff
    /\ VrpOff
    /\ ExtOff
    /\ inaviKey = FALSE

\* a variant of CacheHit: the cache is never used
CacheNever(cache) == FALSE

\* line 307: if (cachedDistrictBoundaries)
CacheHit(cache) == cache # Null

\* the object fetchDistrictBoundaries builds at lines 331-334; `ref` tells
\* two objects with the same content apart
NewBoundaries(cache) ==
    [type |-> FilteredBoundaries.type, features |-> FilteredBoundaries.features,
     ref |-> IF cache = Null THEN 1 ELSE The(cache).ref + 1]

\* generateScenario(count) is called and awaits fetchDistrictBoundaries
\* (line 78), which has sent its request unless the cache is filled
\* (lines 307-317)
GenCall ==
    /\ gpc = "idle"
    /\ \E n \in MinCount..MaxCount, s \in 0..MaxSeed :
          /\ count' = n
          /\ seed' = s
    /\ gpc' = "boundaries"
    /\ issued' = IF CacheHit(cachedDistrictBoundaries) THEN {} ELSE {"boundary fetch"}
    /\ UNCHANGED <<cachedDistrictBoundaries, cachedSubwayExitPOIs, cachedBusStopPOIs,
                   districtGeoJSON, highRiskScooters, commercialLocations, genResult,
                   lastError>>
    /\ UNCHANGED <<mxVars, vrpVars, extVars>>

\* lines 147-177: the scooters of both batch A loops
HighRiskBatch(n, sub, bus, geo, s) ==
    LET nSub == countNearSubwayOf(n)
        nBus == countNearBusStopOf(n)
    IN  [i \in 1..(nSub + nBus) |->
            IF i <= nSub
            THEN HighRiskScooter("subway", "S-HR-SUB", i, sub, geo, s, 1)
            ELSE HighRiskScooter("bus", "S-HR-BUS", i - nSub, bus, geo, s, 2)]

\* lines 211-216: the locations of the commercial loop
CommercialBatch(n, filtered, geo, s) ==
    [i \in 1..n |-> PlaceNear("commercial", filtered, 15, 30, geo, s, 3, i)]

\* lines 119-177 once the red-zone lists are known: both batch A loops, up
\* to the await of fetchCommercialAnchors (line 199)
BatchA(sub, bus, geo, asked) ==
    IF \/ LoopThrows(countNearSubwayOf(count), sub)
       \/ LoopThrows(countNearBusStopOf(count), bus)
    THEN /\ gpc' = "failed"
         /\ lastError' = "TypeError"
         /\ issued' = asked
         /\ UNCHANGED highRiskScooters
    ELSE /\ highRiskScooters' = HighRiskBatch(count, sub, bus, geo, seed)
         /\ gpc' = "commercial"
         /\ issued' = asked \cup {"commercial query"}
         /\ UNCHANGED lastError

\* a variant of RedZoneCached: an empty stored set counts as none
RedZoneCachedNonEmpty(sub, bus) ==
    sub # Null /\ bus # Null /\ The(sub) # << >> /\ The(bus) # << >>

\* line 88: `cachedSubwayExitPOIs && cachedBusStopPOIs`; an array, empty or
\* not, is truthy
RedZoneCached(sub, bus) == sub # Null /\ bus # Null

\* fetchDistrictBoundaries resolves (lines 306-345); with the red-zone
\* caches filled the code runs on through batch A (lines 88-91)
GenBoundariesOk ==
    /\ gpc = "boundaries"
    /\ LET geo == IF CacheHit(cachedDistrictBoundaries) THEN The(cachedDistrictBoundaries)
                  ELSE NewBoundaries(cachedDistrictBoundaries)
       IN  /\ cachedDistrictBoundaries' = Some(geo)
           /\ districtGeoJSON' = geo
           /\ IF RedZoneCached(cachedSubwayExitPOIs, cachedBusStopPOIs)
              THEN BatchA(The(cachedSubwayExitPOIs), The(cachedBusStopPOIs), geo, issued)
              ELSE /\ gpc' = "redzone"
                   /\ issued' = issued \cup {"red-zone query"}
                   /\ UNCHANGED <<highRiskScooters, lastError>>
    /\ UNCHANGED <<count, seed, cachedSubwayExitPOIs, cachedBusStopPOIs,
                   commercialLocations, genResult>>
    /\ UNCHANGED <<mxVars, vrpVars, extVars>>

\* a variant of GenBoundariesFail: the failure is answered with a substitute
\* shape and the generation goes on
GenBoundariesSubstitute ==
    /\ gpc = "boundaries"
    /\ "boundary fetch" \in issued
    /\ gpc' = "redzone"
    /\ districtGeoJSON' = [NoBoundaries EXCEPT !.features = << SeoulDistricts[1] >>]
    /\ issued' = issued \cup {"red-zone query"}
    /\ UNCHANGED <<count, seed, cachedDistrictBoundaries, cachedSubwayExitPOIs,
                   cachedBusStopPOIs, highRiskScooters, commercialLocations, genResult,
                   lastError>>
    /\ UNCHANGED <<mxVars, vrpVars, extVars>>

\* the boundary fetch fails (lines 319-321, 341-344): the error propagates
GenBoundariesFail ==
    /\ gpc = "boundaries"
    /\ "boundary fetch" \in issued
    /\ gpc' = "failed"
    /\ lastError' = "boundary fetch failed"
    /\ UNCHANGED <<count, seed, cachedDistrictBoundaries, cachedSubwayExitPOIs,
                   cachedBusStopPOIs, districtGeoJSON, highRiskScooters,
                   commercialLocations, genResult, issued>>
    /\ UNCHANGED <<mxVars, vrpVars, extVars>>

\* fetchRedZonePOIs resolves (lines 95-117), then batch A
GenRedZoneOk ==
    /\ gpc = "redzone"
    /\ \E osmPOIs \in RedZoneWorlds :
          LET Valid(p) == isPointInDistricts(p.location, districtGeoJSON)
              validPOIs == SelectSeq(osmPOIs, Valid)
              sub == Locations(validPOIs, "subway_exit")
              bus == Locations(validPOIs, "bus_stop")
          IN  /\ cachedSubwayExitPOIs' = Some(sub)
              /\ cachedBusStopPOIs' = Some(bus)
              /\ BatchA(sub, bus, districtGeoJSON, issued)
    /\ UNCHANGED <<count, seed, cachedDistrictBoundaries, districtGeoJSON,
                   commercialLocations, genResult>>
    /\ UNCHANGED <<mxVars, vrpVars, extVars>>

\* an anchor fetch rejects, every mirror having failed (OverpassService,
\* lines 155-157, 180-183): generateScenario rejects with it
GenFetchFail ==
    /\ gpc \in {"redzone", "commercial", "residential"}
    /\ gpc' = "failed"
    /\ lastError' = "anchor query failed"
    /\ UNCHANGED <<count, seed, cachedDistrictBoundaries, cachedSubwayExitPOIs,
                   cachedBusStopPOIs, districtGeoJSON, highRiskScooters,
                   commercialLocations, genResult, issued>>
    /\ UNCHANGED <<mxVars, vrpVars, extVars>>

\* fetchCommercialAnchors resolves (lines 199-216), up to the await of
\* fetchResidentialAnchors (line 221)
GenCommercialOk ==
    /\ gpc = "commercial"
    /\ \E commercialAnchors \in CommercialWorlds :
          LET filtered == FilterInside(commercialAnchors, districtGeoJSON)
              n == countCommercialOf(count)
          IN  IF LoopThrows(n, filtered)
              THEN /\ gpc' = "failed"
                   /\ lastError' = "TypeError"
                   /\ UNCHANGED <<commercialLocations, issued>>
              ELSE /\ commercialLocations' =
                          CommercialBatch(n, filtered, districtGeoJSON, seed)
                   /\ gpc' = "residential"
                   /\ issued' = issued \cup {"residential query"}
                   /\ UNCHANGED lastError
    /\ UNCHANGED <<count, seed, cachedDistrictBoundaries, cachedSubwayExitPOIs,
                   cachedBusStopPOIs, districtGeoJSON, highRiskScooters, genResult>>
    /\ UNCHANGED <<mxVars, vrpVars, extVars>>

\* lines 245-267: the low-battery scooters over the commercial and the
\* residential locations, the combined list, its shuffle and the new ids
CombineScenario(high, comLocs, filtered, nRes, geo, s) ==
    LET nHigh == Len(high)
        nCom == Len(comLocs)
        total == nHigh + nCom + nRes
        u == Rnd(s, DrawIndex(6, 0, 1))
        LowLocation(k) ==
            IF k <= nCom THEN comLocs[k]
            ELSE PlaceNear("residential", filtered, 20, 40, geo, s, 4, k - nCom)
        Combined(j) ==
            IF j <= nHigh THEN high[j]
            ELSE LowBatteryScooter(j - nHigh, LowLocation(j - nHigh), s)
    IN  [i \in 1..total |-> [Combined(ShuffleSource(i, total, u)) EXCEPT !.id = <<"S", i>>]]

FinishScenario(filtered, nRes) ==
    CombineScenario(highRiskScooters, commercialLocations, filtered, nRes,
                    districtGeoJSON, seed)

\* What generateScenario(n) returns for the random stream s when every
\* fetch succeeds with the full dataset.
Scenario(n, s) ==
    LET geo == FilteredBoundaries
        Valid(p) == isPointInDistricts(p.location, geo)
        validPOIs == SelectSeq(SeoulRedZonePOIs, Valid)
    IN  CombineScenario(
            HighRiskBatch(n, Locations(validPOIs, "subway_exit"),
                          Locations(validPOIs, "bus_stop"), geo, s),
            CommercialBatch(countCommercialOf(n),
                            FilterInside(SeoulCommercialAnchors, geo), geo, s),
            FilterInside(SeoulResidentialAnchors, geo),
            countResidentialOf(n), geo, s)

\* fetchResidentialAnchors resolves (lines 221-286): the residential loop,
\* the low-battery scooters, the shuffle and the return
GenResidentialOk ==
    /\ gpc = "residential"
    /\ \E residentialAnchors \in ResidentialWorlds :
          LET filtered == FilterInside(residentialAnchors, districtGeoJSON)
              n == countResidentialOf(count)
          IN  IF LoopThrows(n, filtered)
              THEN /\ gpc' = "failed"
                   /\ lastError' = "TypeError"
                   /\ UNCHANGED genResult
              ELSE /\ genResult' = FinishScenario(filtered, n)
                   /\ gpc' = "done"
                   /\ lastError' = "none"
    /\ UNCHANGED <<count, seed, cachedDistrictBoundaries, cachedSubwayExitPOIs,
                   cachedBusStopPOIs, districtGeoJSON, highRiskScooters,
                   commercialLocations, issued>>
    /\ UNCHANGED <<mxVars, vrpVars, extVars>>

\* the caller has the outcome (App.tsx, handleGenerateScenario): the locals
\* of the call are gone, the module-level caches stay
GenReturn ==
    /\ gpc \in {"done", "failed"}
    /\ gpc' = "idle"
    /\ count' = 0
    /\ seed' = 0
    /\ districtGeoJSON' = NoBoundaries
    /\ highRiskScooters' = << >>
    /\ commercialLocations' = << >>
    /\ genResult' = << >>
    /\ issued' = {}
    /\ UNCHANGED <<cachedDistrictBoundaries, cachedSubwayExitPOIs, cachedBusStopPOIs,
                   lastError>>
    /\ UNCHANGED <<mxVars, vrpVars, extVars>>

GenNext ==
    \/ GenCall
    \/ GenBoundariesOk
    \/ GenBoundariesFail
    \/ GenRedZoneOk
    \/ GenFetchFail
    \/ GenCommercialOk
    \/ GenResidentialOk
    \/ GenReturn

SpecGen == GenInit /\ [][GenNext]_vars

(***************************************************************************)
(* api.ts: numbers.  Distances and durations are fixed-point numbers with  *)
(* one decimal digit, held as a whole number of tenths, so that a value    *)
(* that is not an integer can be told from one that is.  NaN is a value    *)
(* of its own that every sum passes on and no comparison accepts.          *)
(***************************************************************************)
Unit == 10
NaN == 0 - 2000000000
Undefined == 0 - 2000000001

Whole(n) == n * Unit                    \* the integer n
IsInteger(x) == x # NaN /\ x # Undefined /\ x % Unit = 0

\* Math.round: to the nearest integer, halves up
MathRound(x) == IF x = NaN \/ x = Undefined THEN NaN ELSE ((x + Unit \div 2) \div Unit) * Unit

\* a + b of two numbers; undefined converts to NaN
JsAdd(a, b) == IF a = NaN \/ a = Undefined \/ b = NaN \/ b = Undefined THEN NaN ELSE a + b

\* x || 0 for a number x: NaN, undefined and 0 are falsy
OrZero(x) == IF x = NaN \/ x = Undefined THEN 0 ELSE x

\* a === b of two numbers: NaN equals nothing
JsEq(a, b) == a # NaN /\ b # NaN /\ a = b

\* a <= b of two numbers: false when either is NaN
JsLeq(a, b) == a # NaN /\ b # NaN /\ a <= b

\* floor(sqrt(n)) for 0 <= n < 2^28
ISqrtWide(n) == ISqrtIn(n, 0, 16383)

(***************************************************************************)
(* api.ts: the matrices.                                                   *)
(***************************************************************************)
\* The great-circle distance of two points of the grid, in tenths of a
\* metre: at this scale the haversine formula gives the length of the
\* straight line.
haversineDistance(c1, c2) ==
    ISqrtWide(Unit * Unit * ((c2.lat - c1.lat) * (c2.lat - c1.lat)
                             + (c2.lng - c1.lng) * (c2.lng - c1.lng)))

\* dist / avgSpeedMps with avgSpeedMps = 30000 / 3600, i.e. dist * 0.12
DurationOf(dist) == (dist * 12) \div 100

calculateEuclideanMatrices(locs) ==
    LET n == Len(locs)
    IN  [distanceMatrix |->
            [i \in 1..n |-> [j \in 1..n |->
                IF i = j THEN 0 ELSE haversineDistance(locs[i], locs[j])]],
         durationMatrix |->
            [i \in 1..n |-> [j \in 1..n |->
                IF i = j THEN 0 ELSE DurationOf(haversineDistance(locs[i], locs[j]))]]]

\* ---- what the matrix service can answer ----
\* The road distance the service knows for two points, in whole metres.
RoadMetres(c1, c2) == Abs(c2.lat - c1.lat) + Abs(c2.lng - c1.lng)

\* A JSON matrix is Null (absent or not an array) or Some(rows); a row is
\* Null (not an array) or Some(cells); a cell is a number or NaN for a
\* value Number() does not convert.
RoadMatrix(locs, m, cell) ==
    LET Dist(i, j) == Whole(RoadMetres(locs[i], locs[j]))
        Cell(i, j) ==
            CASE cell = "metres" -> Dist(i, j)
              [] cell = "seconds" -> Whole(RoadMetres(locs[i], locs[j]) \div 8)
              [] cell = "half metres" -> Dist(i, j) + Unit \div 2
              [] cell = "signed" -> IF i < j THEN 0 - Dist(i, j) - Unit ELSE Dist(i, j)
              [] cell = "text" ->
                    IF i = j THEN Whole(3) ELSE IF i < j THEN NaN ELSE Dist(i, j)
    IN  Some([i \in 1..m |-> Some([j \in 1..Len(locs) |-> Cell(i, j)])])

\* The response bodies of the service for the request `locs`: the envelope
\* (which member holds the matrices), the two matrices, and whether a row
\* of the `rows` envelope lacks its `elements`.
MatrixBodies(locs) ==
    LET n == Len(locs)
        good == RoadMatrix(locs, n, "metres")
        goodDur == RoadMatrix(locs, n, "seconds")
        Body(e, d, t, b) == [envelope |-> e, dist |-> d, dur |-> t, broken |-> b]
    IN  { Body("rows", good, goodDur, FALSE),
          Body("rows", good, goodDur, TRUE),
          Body("route", RoadMatrix(locs, n, "half metres"), goodDur, FALSE),
          Body("distance_matrix", RoadMatrix(locs, n, "signed"), goodDur, FALSE),
          Body("distance_matrix", RoadMatrix(locs, n, "text"), goodDur, FALSE),
          Body("result", RoadMatrix(locs, n - 1, "metres"),
               RoadMatrix(locs, n - 1, "seconds"), FALSE),
          Body("distanceMatrix", Some([i \in 1..n |-> IF i = 2 THEN Null ELSE The(good)[i]]),
               goodDur, FALSE),
          Body("route", good, RoadMatrix(locs, 1, "seconds"), FALSE),
          Body("distance_matrix", good, Null, FALSE),
          Body("distance_matrix", Some(<< >>), Some(<< >>), FALSE),
          Body("none", Null, Null, FALSE) }

Return(v) == [kind |-> "return", value |-> v]
Throw == [kind |-> "throw", value |-> [distanceMatrix |-> << >>, durationMatrix |-> << >>]]

\* lines 146-151: Math.round(Number(val) || 0) on every cell of an array
\* row, [] for a row that is not an array
IntMatrix(rows) ==
    [i \in 1..Len(rows) |->
        IF rows[i] = Null THEN << >>
        ELSE [j \in 1..Len(The(rows[i])) |-> MathRound(OrZero(The(rows[i])[j]))]]

\* lines 117-160, the body of the try once response.json() has resolved
ParseMatrixBody(data, locs) ==
    IF data.envelope = "rows" /\ data.broken
    THEN Throw                  \* row.elements is undefined: TypeError
    ELSE LET distanceMatrix == IF data.envelope = "none" THEN Null ELSE data.dist
             durationMatrix == IF data.envelope = "none" THEN Null ELSE data.dur
         IN  IF /\ distanceMatrix # Null /\ durationMatrix # Null
                /\ Len(The(distanceMatrix)) > 0 /\ Len(The(durationMatrix)) > 0
             THEN Return([distanceMatrix |-> IntMatrix(The(distanceMatrix)),
                          durationMatrix |-> IntMatrix(The(durationMatrix))])
             ELSE Return(calculateEuclideanMatrices(locs))

\* a variant of MatrixCatch: the error is passed on
MatrixNoCatch(outcome, locs) == outcome

\* lines 162-166: the catch of getDistanceMatrix
MatrixCatch(outcome, locs) ==
    IF outcome.kind = "throw" THEN Return(calculateEuclideanMatrices(locs)) ELSE outcome

\* getDistanceMatrix completes with `outcome`
MatrixComplete(outcome, what) ==
    /\ mpc' = IF outcome.kind = "throw" THEN "raised" ELSE "returned"
    /\ mResult' = outcome.value
    /\ mRemote' = what

\* lines 72-104: getDistanceMatrix(locs) up to its first await or its return
MatrixEnter(locs) ==
    /\ mLocations' = locs
    /\ IF Len(locs) < 3 \/ ~inaviKey
       THEN MatrixComplete(Return(calculateEuclideanMatrices(locs)), "none")
       ELSE /\ mpc' = "fetch"
            /\ mRemote' = "asked"
            /\ UNCHANGED mResult

\* fetch rejects (lines 98, 162-166)
MatrixNetworkError ==
    /\ mpc = "fetch"
    /\ MatrixComplete(MatrixCatch(Throw, mLocations), "network error")
    /\ UNCHANGED <<inaviKey, mLocations, genVars, extVars, vrpVars>>

\* fetch resolves (lines 98-113): the status decides what is read next
MatrixResponse ==
    /\ mpc = "fetch"
    /\ \E ok \in BOOLEAN : mpc' = IF ok THEN "json" ELSE "text"
    /\ UNCHANGED <<inaviKey, mLocations, mRemote, mResult, genVars, extVars, vrpVars>>

\* response.text() of a non-OK response settles (lines 107-110); a
\* rejection is caught (lines 162-166)
MatrixNotOk ==
    /\ mpc = "text"
    /\ \E outcome \in {Return(calculateEuclideanMatrices(mLocations)), Throw} :
          MatrixComplete(MatrixCatch(outcome, mLocations), "non-OK status")
    /\ UNCHANGED <<inaviKey, mLocations, genVars, extVars, vrpVars>>

\* response.json() rejects: the body is not JSON (lines 113, 162-166)
MatrixUnparsable ==
    /\ mpc = "json"
    /\ MatrixComplete(MatrixCatch(Throw, mLocations), "unparsable body")
    /\ UNCHANGED <<inaviKey, mLocations, genVars, extVars, vrpVars>>

\* The body holds a matrix pair in one of the envelopes the code knows.
Recognized(data) ==
    /\ data.envelope # "none"
    /\ ~data.broken
    /\ data.dist # Null /\ data.dur # Null
    /\ The(data.dist) # << >> /\ The(data.dur) # << >>

\* response.json() resolves (lines 113-166)
MatrixJson ==
    /\ mpc = "json"
    /\ \E data \in MatrixBodies(mLocations) :
          LET outcome == ParseMatrixBody(data, mLocations)
          IN  MatrixComplete(MatrixCatch(outcome, mLocations),
                             IF Recognized(data) THEN "matrices" ELSE "unrecognized body")
    /\ UNCHANGED <<inaviKey, mLocations, genVars, extVars, vrpVars>>

(***************************************************************************)
(* getDistanceMatrix on its own: called with any short list of locations.  *)
(***************************************************************************)
MaxLocations == 3

MatrixPoints == {Pt(0, 0), Pt(3, 4), Pt(1, 1), Pt(100, 7)}

RECURSIVE LocationLists(_)
LocationLists(n) ==
    IF n = 0 THEN {<< >>}
    ELSE LET shorter == LocationLists(n - 1)
         IN  shorter \cup {Append(l, p) : l \in {x \in shorter : Len(x) = n - 1},
                                          p \in MatrixPoints}

MatrixInit ==
    /\ GenOff
    /\ MxOff
    /\ VrpOff
    /\ ExtOff
    /\ inaviKey \in BOOLEAN

MatrixCall ==
    /\ mpc = "idle"
    /\ \E locs \in LocationLists(MaxLocations) : MatrixEnter(locs)
    /\ UNCHANGED <<inaviKey, genVars, extVars, vrpVars>>

\* the caller has the matrices
MatrixReturn ==
    /\ mpc = "returned"
    /\ mpc' = "idle"
    /\ mLocations' = << >>
    /\ mRemote' = "none"
    /\ mResult' = [distanceMatrix |-> << >>, durationMatrix |-> << >>]
    /\ UNCHANGED <<inaviKey, genVars, extVars, vrpVars>>

MatrixNext ==
    \/ MatrixCall
    \/ MatrixNetworkError
    \/ MatrixResponse
    \/ MatrixNotOk
    \/ MatrixUnparsable
    \/ MatrixJson
    \/ MatrixReturn

SpecMatrix == MatrixInit /\ [][MatrixNext]_vars

(***************************************************************************)
(* api.ts: solveVrp.  A name (a scooter id, the hub name, a vehicle id)    *)
(* is a pair of a prefix and a number: `S-12` is <<"S", 12>>.              *)
(***************************************************************************)
LocationCap == 200
ChunkMetres == 2000
TravelSeconds == 300
ColorCount == 4
VehicleCapacity == 20

\* the depot the user picked among the candidates (App.tsx, lines 86-96)
Hub == [id |-> "hub-1", name |-> <<"Depot", 0>>, location |-> Pt(100, 50)]

\* s.penaltyValue: undefined for an object without the property
PenaltyValueOf(sc) == IF "penaltyValue" \in DOMAIN sc THEN sc.penaltyValue ELSE Undefined

\* the sum of seq[lo..hi]; JsAdd is associative, so the halves may be
\* summed apart
RECURSIVE SumRange(_, _, _)
SumRange(seq, lo, hi) ==
    IF lo > hi THEN 0
    ELSE IF lo = hi THEN seq[lo]
    ELSE JsAdd(SumRange(seq, lo, (lo + hi) \div 2), SumRange(seq, (lo + hi) \div 2 + 1, hi))

\* seq.reduce((sum, x) => sum + x, 0): a NaN term makes the sum NaN
SumSeq(seq) == JsAdd(0, SumRange(seq, 1, Len(seq)))

\* lines 28-38: the location list and the scooters that match it
LocationsOf(pop) == << Hub.location >> \o [i \in 1..Len(pop) |-> pop[i].location]

TruncatedLocations(pop) ==
    IF Len(pop) + 1 > LocationCap THEN SubSeq(LocationsOf(pop), 1, LocationCap)
    ELSE LocationsOf(pop)

WorkingScootersOf(pop) ==
    IF Len(pop) + 1 > LocationCap THEN SubSeq(pop, 1, LocationCap - 1) ELSE pop

\* lines 209-261; the two timestamps are left out
buildVrpRequest(working, k, distanceMatrix, durationMatrix) ==
    [depot |-> [name |-> Hub.name, coordinate |-> Hub.location],
     visits |-> [i \in 1..Len(working) |->
                    [name |-> working[i].id,
                     coordinate |-> working[i].location,
                     volume |-> IF working[i].state = "C" THEN 0 ELSE 1,
                     service_time |-> working[i].service_time,
                     unassigned_penalty |-> PenaltyValueOf(working[i])]],
     vehicles |-> [i \in 1..k |-> [name |-> <<"Truck", i>>, volume_capacity |-> VehicleCapacity]],
     distance_matrix |-> [i \in 1..Len(distanceMatrix) |->
                            [j \in 1..Len(distanceMatrix[i]) |-> MathRound(distanceMatrix[i][j])]],
     duration_matrix |-> [i \in 1..Len(durationMatrix) |->
                            [j \in 1..Len(durationMatrix[i]) |-> MathRound(durationMatrix[i][j])]]]

\* ---- generateMockRoutes (lines 453-497) ----
\* b.penaltyValue - a.penaltyValue; sort reads a NaN as 0
MockCompare(a, b) ==
    IF PenaltyValueOf(a) = Undefined \/ PenaltyValueOf(b) = Undefined THEN 0
    ELSE PenaltyValueOf(b) - PenaltyValueOf(a)

\* [...scooters].sort(compare): the sort is stable.  When no scooter has a
\* penaltyValue every comparison gives 0 and the order stays.
SortByPenalty(seq) ==
    IF \A i \in 1..Len(seq) : PenaltyValueOf(seq[i]) = Undefined THEN seq
    ELSE LET Before(i, j) == \/ MockCompare(seq[i], seq[j]) < 0
                             \/ MockCompare(seq[i], seq[j]) = 0 /\ i < j
             Rank(i) == Cardinality({j \in 1..Len(seq) : Before(j, i)}) + 1
         IN  [p \in 1..Len(seq) |-> seq[CHOOSE i \in 1..Len(seq) : Rank(i) = p]]

\* Math.ceil(n / k)
CeilDiv(n, k) == (n + k - 1) \div k

\* a variant of MockChunk: every chunk starts at the first scooter
MockChunkFromStart(sorted, i, chunkSize) == SubSeq(sorted, 1, Min(i * chunkSize, Len(sorted)))

\* sortedScooters.slice((i - 1) * chunkSize, i * chunkSize) for truck i = 1, 2, ...
MockChunk(sorted, i, chunkSize) ==
    SubSeq(sorted, (i - 1) * chunkSize + 1, Min(i * chunkSize, Len(sorted)))

\* the terms of chunk.filter(s => s.state === st).reduce(... + s.penaltyValue, 0)
PenaltiesOf(chunk, states) ==
    LET OfState(sc) == sc.state \in states
        sel == SelectSeq(chunk, OfState)
    IN  [i \in 1..Len(sel) |-> PenaltyValueOf(sel[i])]

CountOf(chunk, st) == Cardinality({i \in 1..Len(chunk) : chunk[i].state = st})

\* lines 466-493: the route of truck i over its chunk; `entities` lists the
\* ids of the scooters on the route
MockRoute(i, chunk) ==
    [vehicleId |-> <<"Mock-Truck", i>>,
     path |-> << Hub.location >> \o [j \in 1..Len(chunk) |-> chunk[j].location]
              \o << Hub.location >>,
     roadGeometry |-> << >>,                \* a mock route has none
     color |-> (i - 1) % ColorCount,
     distance |-> Whole(Len(chunk) * ChunkMetres),
     duration |-> Whole(SumSeq([j \in 1..Len(chunk) |-> chunk[j].service_time * 60])
                        + Len(chunk) * TravelSeconds),
     scootersCollected |-> Len(chunk),
     totalScore |-> SumSeq([j \in 1..Len(chunk) |-> PenaltyValueOf(chunk[j])]),
     revenueCollected |-> SumSeq(PenaltiesOf(chunk, {"B"})),
     finesAvoided |-> SumSeq(PenaltiesOf(chunk, {"C"})),
     highRiskCollected |-> CountOf(chunk, "C"),
     lowBatteryCollected |-> CountOf(chunk, "B"),
     entities |-> [j \in 1..Len(chunk) |-> chunk[j].id]]

generateMockRoutes(pop, k) ==
    LET chunkSize == CeilDiv(Len(pop), k)
        IsFilled(i) == (i - 1) * chunkSize < Len(pop)
        filled == SelectSeq([i \in 1..k |-> i], IsFilled)
    IN  [r \in 1..Len(filled) |->
            MockRoute(filled[r], MockChunk(SortByPenalty(pop), filled[r], chunkSize))]

\* ---- parseVrpResponseWithGeometry (lines 345-448) ----
\* nameToIndex[name] + 1, or 0 for undefined
NameIndex(name, working) ==
    IF \E i \in 1..Len(working) : working[i].id = name
    THEN (CHOOSE i \in 1..Len(working) : working[i].id = name) + 1
    ELSE IF name = Hub.name THEN 1 ELSE 0

\* the position in `working` of scooters.find(s => s.id === name), or 0
FindScooter(name, working) ==
    IF \E i \in 1..Len(working) : working[i].id = name
    THEN CHOOSE i \in 1..Len(working) :
            working[i].id = name /\ \A j \in 1..(i - 1) : working[j].id # name
    ELSE 0

\* lines 364-368
WaypointsOf(names, working) ==
    [i \in 1..Len(names) |->
        IF names[i] = Hub.name THEN Hub.location
        ELSE IF FindScooter(names[i], working) # 0
             THEN working[FindScooter(names[i], working)].location
             ELSE Hub.location]

\* m[i][j] of 1-based i and j: undefined beyond the row
CellOf(m, i, j) == IF j <= Len(m[i]) THEN m[i][j] ELSE Undefined

\* lines 387-442: the statistics of one route once its geometry is there.
\* Step i is the pair of names i, i + 1.
RouteStats(route, index, working, distanceMatrix, durationMatrix, geometry) ==
    LET names == route.route_name
        steps == Len(names) - 1
        From(i) == NameIndex(names[i], working)
        To(i) == NameIndex(names[i + 1], working)
        Looked(i) == From(i) # 0 /\ To(i) # 0 /\ From(i) <= Len(distanceMatrix)
        \* durationMatrix[fromIdx] is undefined: reading [toIdx] is a TypeError
        Throws(i) == Looked(i) /\ From(i) > Len(durationMatrix)
        Visit(i) == IF names[i + 1] = Hub.name THEN 0 ELSE FindScooter(names[i + 1], working)
        Penalty(i, states) ==
            IF Visit(i) # 0 /\ working[Visit(i)].state \in states
            THEN PenaltyValueOf(working[Visit(i)]) ELSE 0
        CountIn(states) ==
            Cardinality({i \in 1..steps : Visit(i) # 0 /\ working[Visit(i)].state \in states})
    IN  IF \E i \in 1..steps : Throws(i)
        THEN [kind |-> "throw", value |-> << >>]
        ELSE [kind |-> "return", value |->
            [vehicleId |-> route.vehicle_name,
             path |-> WaypointsOf(names, working),
             roadGeometry |-> geometry,
             color |-> (index - 1) % ColorCount,
             distance |-> SumSeq([i \in 1..steps |->
                 IF Looked(i) THEN OrZero(CellOf(distanceMatrix, From(i), To(i))) ELSE 0]),
             duration |-> SumSeq([i \in 1..steps |->
                 JsAdd(IF Looked(i) THEN OrZero(CellOf(durationMatrix, From(i), To(i))) ELSE 0,
                       IF Visit(i) # 0 THEN Whole(working[Visit(i)].service_time * 60) ELSE 0)]),
             scootersCollected |-> Cardinality({i \in 1..steps : Visit(i) # 0}),
             totalScore |-> SumSeq([i \in 1..steps |->
                 IF Visit(i) # 0 THEN PenaltyValueOf(working[Visit(i)]) ELSE 0]),
             revenueCollected |-> SumSeq([i \in 1..steps |-> Penalty(i, {"B"})]),
             finesAvoided |-> SumSeq([i \in 1..steps |-> Penalty(i, {"C"})]),
             highRiskCollected |-> CountIn({"C"}),
             lowBatteryCollected |-> CountIn({"B"}),
             entities |-> LET Known(nm) == FindScooter(nm, working) # 0
                          IN  SelectSeq(names, Known)]]

\* ---- what the solver service can answer ----
\* The solver plans the visits of the request: a visit is on at most one
\* route and at most once, and there are no more routes than vehicles.
\* `pop` is the population before the cap.
SolverResponses(working, k, pop) ==
    LET H == Hub.name
        S(i) == <<"S", i>>
        Route(v, names) == [vehicle_name |-> <<"Truck", v>>, route_name |-> names]
        Result(rs) == [wellFormed |-> TRUE, routes |-> rs]
        UpTo(rs) == SubSeq(rs, 1, Min(k, Len(rs)))
    IN  { Result(<< >>),
          Result(<< Route(1, << H, S(1), S(2), S(3), H >>) >>),
          Result(UpTo(<< Route(1, << H, S(1), H >>), Route(2, << H, S(2), H >>) >>)),
          Result(<< Route(1, << S(1), S(2), H >>) >>),
          Result(UpTo(<< Route(1, << H, H >>), Route(2, << H, S(4), H >>) >>)),
          Result(UpTo(<< Route(1, << H >>), Route(2, << H, S(6), H >>) >>)),
          Result(<< Route(1, << H, <<"X", 404>>, S(5), H >>) >>),
          Result(<< Route(1, << H, S(1), S(Len(pop)), H >>) >>),
          [wellFormed |-> FALSE, routes |-> << >>] }      \* no routing_engine_result

\* ---- what the geometry service can answer for one segment ----
GeometryAnswers == {"network error", "non-OK status", "no coords", "coords"}

\* a variant of fetchRoadGeometry: a failed request leaves an empty segment
fetchRoadGeometryDrops(from, to, ans) ==
    IF ans = "coords" THEN << from, Pt(from.lat, to.lng), to >> ELSE << >>

\* fetchRoadGeometry (lines 290-340) for the answer `ans`
fetchRoadGeometry(from, to, ans) ==
    IF ans = "coords" THEN << from, Pt(from.lat, to.lng), to >> ELSE << from, to >>

\* a variant of SolveCatch: the error is passed on
SolveNoCatch(outcome) == outcome

\* lines 62-65: the catch of solveVrp
SolveCatch(outcome) ==
    IF outcome.kind = "throw"
    THEN [kind |-> "return", value |-> generateMockRoutes(scooters, truckCount)]
    ELSE outcome

\* solveVrp settles
VrpComplete(outcome) ==
    /\ vpc' = IF outcome.kind = "throw" THEN "rejected" ELSE "done"
    /\ routes' = outcome.value

VrpThrow == [kind |-> "throw", value |-> << >>]

\* solveVrp(pop, hub, k) is called (lines 16-44), up to the await of
\* getDistanceMatrix
VrpCall(populations) ==
    /\ vpc = "idle"
    /\ mpc = "idle"
    /\ \E pop \in populations, k \in 1..MaxTrucks :
          /\ scooters' = pop
          /\ truckCount' = k
          /\ workingScooters' = WorkingScootersOf(pop)
          /\ MatrixEnter(TruncatedLocations(pop))
    /\ vpc' = "matrix"
    /\ UNCHANGED <<inaviKey, solver, vrpResponse, roadGeometry, parsedRoutes, routes, genVars, extVars>>

\* getDistanceMatrix has settled (lines 44-53): the request is built and sent
VrpAfterMatrix ==
    /\ vpc = "matrix"
    /\ mpc \in {"returned", "raised"}
    /\ IF mpc = "raised"
       THEN /\ VrpComplete(SolveCatch(VrpThrow))
            /\ UNCHANGED solver
       ELSE /\ vpc' = "solver"
            /\ solver' = "asked"
            /\ UNCHANGED routes
    /\ UNCHANGED <<scooters, truckCount, workingScooters, vrpResponse, roadGeometry,
                   parsedRoutes, genVars, extVars, mxVars>>

\* the solver fetch rejects (lines 267, 62-65)
SolverNetworkError ==
    /\ vpc = "solver"
    /\ solver' = "network error"
    /\ VrpComplete(SolveCatch(VrpThrow))
    /\ UNCHANGED <<scooters, truckCount, workingScooters, vrpResponse, roadGeometry,
                   parsedRoutes, genVars, extVars, mxVars>>

\* the solver fetch resolves (lines 267-282)
SolverResponse ==
    /\ vpc = "solver"
    /\ \E ok \in BOOLEAN : vpc' = IF ok THEN "solver json" ELSE "solver text"
    /\ UNCHANGED <<scooters, truckCount, workingScooters, solver, vrpResponse,
                   roadGeometry, parsedRoutes, routes, genVars, extVars, mxVars>>

\* response.text() of a non-OK response settles: callOmeletVrp throws
\* either way (lines 277-280)
SolverNotOk ==
    /\ vpc = "solver text"
    /\ solver' = "non-OK status"
    /\ VrpComplete(SolveCatch(VrpThrow))
    /\ UNCHANGED <<scooters, truckCount, workingScooters, vrpResponse, roadGeometry,
                   parsedRoutes, genVars, extVars, mxVars>>

\* response.json() rejects (line 282)
SolverUnparsable ==
    /\ vpc = "solver json"
    /\ solver' = "unparsable body"
    /\ VrpComplete(SolveCatch(VrpThrow))
    /\ UNCHANGED <<scooters, truckCount, workingScooters, vrpResponse, roadGeometry,
                   parsedRoutes, genVars, extVars, mxVars>>

\* the number of geometry requests of a route (line 372)
SegmentsOf(route) == Max(0, Len(route.route_name) - 1)

\* the statistics of route r of the response with the geometry `geometry`
StatsOf(response, r, geometry) ==
    RouteStats(response.routes[r], r, workingScooters, mResult.distanceMatrix,
               mResult.durationMatrix, geometry)

\* response.json() resolves (lines 282-283, 53-57, 352-375): every route's
\* callback runs up to its first geometry request; a route without
\* segments is finished at once
SolverJson ==
    /\ vpc = "solver json"
    /\ \E response \in SolverResponses(workingScooters, truckCount, scooters) :
          IF ~response.wellFormed
          THEN /\ solver' = "malformed body"
               /\ VrpComplete(SolveCatch(VrpThrow))
               /\ UNCHANGED <<vrpResponse, roadGeometry, parsedRoutes>>
          ELSE /\ solver' = "routes"
               /\ vrpResponse' = [routes |-> response.routes]
               /\ roadGeometry' = [r \in 1..Len(response.routes) |-> << >>]
               /\ parsedRoutes' = [r \in 1..Len(response.routes) |->
                      IF SegmentsOf(response.routes[r]) = 0
                      THEN Some(StatsOf(response, r, << >>).value) ELSE Null]
               /\ vpc' = "parse"
               /\ UNCHANGED routes
    /\ UNCHANGED <<scooters, truckCount, workingScooters, genVars, extVars, mxVars>>

\* one geometry request of route r settles (lines 372-375); after the last
\* one the callback computes the statistics (lines 377-442), and a throw
\* there rejects Promise.all (lines 359, 62-65)
GeometrySettles ==
    /\ vpc = "parse"
    /\ \E r \in 1..Len(vrpResponse.routes), ans \in GeometryAnswers :
          /\ parsedRoutes[r] = Null
          /\ LET path == WaypointsOf(vrpResponse.routes[r].route_name, workingScooters)
                 i == Len(roadGeometry[r]) + 1
                 geometry == Append(roadGeometry[r],
                                    fetchRoadGeometry(path[i], path[i + 1], ans))
                 stats == StatsOf(vrpResponse, r, geometry)
             IN  /\ roadGeometry' = [roadGeometry EXCEPT ![r] = geometry]
                 /\ IF i < SegmentsOf(vrpResponse.routes[r])
                    THEN UNCHANGED <<parsedRoutes, vpc, routes>>
                    ELSE IF stats.kind = "throw"
                         THEN /\ VrpComplete(SolveCatch(stats))
                              /\ UNCHANGED parsedRoutes
                         ELSE /\ parsedRoutes' = [parsedRoutes EXCEPT ![r] = Some(stats.value)]
                              /\ UNCHANGED <<vpc, routes>>
    /\ UNCHANGED <<scooters, truckCount, workingScooters, solver, vrpResponse,
                   genVars, extVars, mxVars>>

\* Promise.all resolves (lines 359-447, 57-60)
ParseDone ==
    /\ vpc = "parse"
    /\ \A r \in 1..Len(parsedRoutes) : parsedRoutes[r] # Null
    /\ VrpComplete(SolveCatch([kind |-> "return",
                               value |-> [r \in 1..Len(parsedRoutes) |-> The(parsedRoutes[r])]]))
    /\ UNCHANGED <<scooters, truckCount, workingScooters, solver, vrpResponse,
                   roadGeometry, parsedRoutes, genVars, extVars, mxVars>>

\* the caller has the routes (App.tsx, handleOptimize)
VrpReturn ==
    /\ vpc = "done"
    /\ scooters' = << >>
    /\ truckCount' = 0
    /\ vpc' = "idle"
    /\ workingScooters' = << >>
    /\ solver' = "none"
    /\ vrpResponse' = [routes |-> << >>]
    /\ roadGeometry' = << >>
    /\ parsedRoutes' = << >>
    /\ routes' = << >>
    /\ mLocations' = << >>
    /\ mpc' = "idle"
    /\ mRemote' = "none"
    /\ mResult' = [distanceMatrix |-> << >>, durationMatrix |-> << >>]
    /\ UNCHANGED <<inaviKey, genVars, extVars>>

\* the populations the user optimizes: what the generator returns for the
\* smallest count; the largest count is the one that exceeds the cap
Populations == {Scenario(MinCount, s) : s \in 0..MaxSeed}
LargePopulations == {Scenario(MaxCount, MaxSeed)}

VrpCallSmall == VrpCall(Populations)
VrpCallLarge == VrpCall(LargePopulations)

VrpInit ==
    /\ GenOff
    /\ MxOff
    /\ VrpOff
    /\ ExtOff
    /\ inaviKey \in BOOLEAN

VrpNext ==
    \/ VrpCallSmall
    \/ MatrixNetworkError
    \/ MatrixResponse
    \/ MatrixNotOk
    \/ MatrixUnparsable
    \/ MatrixJson
    \/ VrpAfterMatrix
    \/ SolverNetworkError
    \/ SolverResponse
    \/ SolverNotOk
    \/ SolverUnparsable
    \/ SolverJson
    \/ GeometrySettles
    \/ ParseDone
    \/ VrpReturn

SpecVrp == VrpInit /\ [][VrpNext]_vars

CapNext ==
    \/ VrpCallLarge
    \/ MatrixNetworkError
    \/ MatrixResponse
    \/ MatrixNotOk
    \/ MatrixUnparsable
    \/ MatrixJson
    \/ VrpAfterMatrix
    \/ SolverNetworkError
    \/ SolverResponse
    \/ SolverNotOk
    \/ SolverUnparsable
    \/ SolverJson
    \/ GeometrySettles
    \/ ParseDone
    \/ VrpReturn

SpecCap == VrpInit /\ [][CapNext]_vars

(***************************************************************************)
(* services/OverpassService.ts: one anchor query (fetchCommercialAnchors,  *)
(* fetchResidentialAnchors, fetchRedZonePOIs).  A bound of a bounding box  *)
(* is a whole number of 1e-4 degrees, a coordinate of an element a whole   *)
(* number of 1e-7 degrees.  A Map is the set of its <<key, value>> pairs.  *)
(***************************************************************************)
MaxQueries == 2         \* anchor queries per process

Servers == << "overpass-api.de", "overpass.kumi.systems", "maps.mail.ru" >>

Categories == {"commercial", "residential", "redzone"}

Box(s, w, n, e) == [south |-> s, west |-> w, north |-> n, east |-> e]

\* the boxes a caller asks for: the second rounds to the key of the first
QueryBounds == { Box(374200, 1269000, 375500, 1271800),
                 Box(374202, 1269001, 375503, 1271804),
                 Box(374220, 1269000, 375500, 1271800) }

\* Number.prototype.toFixed(3) of v / 10^4, as a whole number of 1e-3
ToFixed3(v) == (v + 5) \div 10
\* Number.prototype.toFixed(6) of v / 10^7, as a whole number of 1e-6
ToFixed6(v) == (v + 5) \div 10

getCacheKey(bounds) ==
    << ToFixed3(bounds.south), ToFixed3(bounds.west),
       ToFixed3(bounds.north), ToFixed3(bounds.east) >>

\* `${category}_${getCacheKey(bounds)}`
CacheKeyOf(category, bounds) == <<category>> \o getCacheKey(bounds)

MapHas(map, key) == \E e \in map : e[1] = key
MapGet(map, key) == (CHOOSE e \in map : e[1] = key)[2]
MapSet(map, key, value) == {e \in map : e[1] # key} \cup {<<key, value>>}

\* the elements of an Overpass response
Node(lat, lon, tags) == [type |-> "node", lat |-> lat, lon |-> lon, tags |-> tags]
Way(tags) == [type |-> "way", lat |-> 0, lon |-> 0, tags |-> tags]
Tags(k, v, name) == [key |-> k, value |-> v, name |-> name]

\* what the map database holds for a category in the box of a key
OsmElements(category, key) ==
    IF key[2] # ToFixed3(374200)
    THEN IF category = "commercial"
         THEN << Way(Tags("office", "yes", "")) >>
         ELSE IF category = "residential"
         THEN << Way(Tags("highway", "residential", "")),
                 Node(374900000, 1270300000, Tags("", "", "")),
                 Node(374900004, 1270300004, Tags("", "", "")) >>
         ELSE << Node(374950000, 1270270000, Tags("highway", "bus_stop", "")) >>
    ELSE IF category = "commercial"
    THEN << Node(374979000, 1270276000, Tags("shop", "convenience", "")),
            Node(375010000, 1270390000, Tags("amenity", "cafe", "")),
            Node(374979000, 1270276000, Tags("amenity", "fast_food", "")),
            Way(Tags("office", "yes", "")) >>
    ELSE IF category = "residential"
    THEN << Way(Tags("highway", "residential", "")),
            Node(374900000, 1270300000, Tags("", "", "")),
            Node(374910000, 1270310000, Tags("", "", "")),
            Node(374900000, 1270300000, Tags("", "", "")) >>
    ELSE << Node(374979000, 1270276000, Tags("railway", "subway_entrance", "Gangnam")),
            Node(374980000, 1270280000, Tags("highway", "bus_stop", "")),
            Node(374980000, 1270280000, Tags("highway", "bus_stop", "Gangnam Stn")) >>

\* what one endpoint can do with a request
ServerErrors == {"network error", "non-OK status", "invalid JSON"}
ServerAnswers == ServerErrors \cup {"null", "no elements", "elements"}

Contact(i, answer) == [server |-> Servers[i], answer |-> answer]
ErrorOf(i, answer) == [server |-> Servers[i], kind |-> answer]
AllFailed == [server |-> "", kind |-> "All Overpass servers failed."]

\* the conversions of the three fetch functions
CommercialAnchorsOf(elements) ==
    LET nodes == SelectSeq(elements, LAMBDA el : el.type = "node")
    IN  [i \in 1..Len(nodes) |-> Pt(nodes[i].lat, nodes[i].lon)]

RECURSIVE ResidentialFrom(_, _, _)
ResidentialFrom(elements, i, seenCoords) ==
    IF i > Len(elements) THEN << >>
    ELSE LET el == elements[i]
             key == <<ToFixed6(el.lat), ToFixed6(el.lon)>>
         IN  IF el.type = "node" /\ el.lat # 0 /\ el.lon # 0 /\ key \notin seenCoords
             THEN <<Pt(el.lat, el.lon)>> \o ResidentialFrom(elements, i + 1, seenCoords \cup {key})
             ELSE ResidentialFrom(elements, i + 1, seenCoords)

ResidentialAnchorsOf(elements) == ResidentialFrom(elements, 1, {})

RedZonePOIOf(node) ==
    LET isSubway == node.tags.key = "railway" /\ node.tags.value = "subway_entrance"
    IN  [location |-> Pt(node.lat, node.lon),
         name |-> IF node.tags.name # "" THEN node.tags.name
                  ELSE IF isSubway THEN "Subway Exit" ELSE "Bus Stop",
         type |-> IF isSubway THEN "subway_exit" ELSE "bus_stop"]

RedZonePOIsOf(elements) ==
    LET nodes == SelectSeq(elements, LAMBDA el : el.type = "node")
    IN  [i \in 1..Len(nodes) |-> RedZonePOIOf(nodes[i])]

ConvertElements(category, elements) ==
    IF category = "commercial" THEN CommercialAnchorsOf(elements)
    ELSE IF category = "residential" THEN ResidentialAnchorsOf(elements)
    ELSE RedZonePOIsOf(elements)

\* the Map a fetch function reads and writes
CacheOf(category) == IF category = "redzone" THEN redZonePOICache ELSE anchorCache

\* a variant of LoopEnds: the loop goes through the whole list
LoopEndsWhenExhausted(tried, data) == Len(tried) = Len(Servers)

\* `for (const url of servers)` with `if (data) break`
LoopEnds(tried, data) == data # Null \/ Len(tried) = Len(Servers)

\* the code after the loop reaches `cache.set` unless it returned [] before
CachesResult(data) == Len(data.elements) > 0

\* the code after the loop: throw, return [] or convert, store and return
AfterLoop(data, error) ==
    LET key == CacheKeyOf(qCategory, qBounds)
        value == ConvertElements(qCategory, The(data).elements)
        stored == data # Null /\ CachesResult(The(data))
    IN  /\ qOutcome' = IF data = Null
                       THEN [kind |-> "throw",
                             value |-> IF error # Null THEN The(error) ELSE AllFailed]
                       ELSE IF ~CachesResult(The(data))
                       THEN [kind |-> "return", value |-> << >>]
                       ELSE [kind |-> "return", value |-> value]
        /\ anchorCache' = IF stored /\ qCategory # "redzone"
                          THEN MapSet(anchorCache, key, value) ELSE anchorCache
        /\ redZonePOICache' = IF stored /\ qCategory = "redzone"
                              THEN MapSet(redZonePOICache, key, value) ELSE redZonePOICache
        /\ qpc' = "done"

\* one pass of the loop body has been made with `data` and `lastError` as given
LoopStep(tried, data, error) ==
    /\ qTried' = tried
    /\ qData' = data
    /\ qLastError' = error
    /\ IF LoopEnds(tried, data)
       THEN AfterLoop(data, error)
       ELSE /\ qpc' = "loop"
            /\ UNCHANGED <<anchorCache, redZonePOICache, qOutcome>>
    /\ UNCHANGED <<qCategory, qBounds, qCompleted, qCalls>>
    /\ UNCHANGED <<genVars, mxVars, vrpVars, bndVars, appVars>>

\* a fetch function is called
OvpCall ==
    /\ qpc = "idle"
    /\ qCalls < MaxQueries
    /\ \E category \in Categories, bounds \in QueryBounds :
          LET key == CacheKeyOf(category, bounds)
          IN  /\ qCategory' = category
              /\ qBounds' = bounds
              /\ IF MapHas(CacheOf(category), key)
                 THEN /\ qOutcome' = [kind |-> "return",
                                      value |-> MapGet(CacheOf(category), key)]
                      /\ qpc' = "done"
                 ELSE /\ qOutcome' = NoOutcome
                      /\ qpc' = "loop"
    /\ qCalls' = qCalls + 1
    /\ qTried' = << >>
    /\ qData' = Null
    /\ qLastError' = Null
    /\ UNCHANGED <<anchorCache, redZonePOICache, qCompleted>>
    /\ UNCHANGED <<genVars, mxVars, vrpVars, bndVars, appVars>>

\* the next endpoint fails: fetch rejects, the status is not OK or the text is not JSON
OvpServerFails ==
    /\ qpc = "loop"
    /\ \E answer \in ServerErrors :
          LET i == Len(qTried) + 1
          IN  LoopStep(Append(qTried, Contact(i, answer)), qData, Some(ErrorOf(i, answer)))

\* the next endpoint answers with the JSON text `null`
OvpServerNull ==
    /\ qpc = "loop"
    /\ LoopStep(Append(qTried, Contact(Len(qTried) + 1, "null")), qData, qLastError)

\* the next endpoint answers with a response object
OvpServerAnswers ==
    /\ qpc = "loop"
    /\ \E answer \in {"no elements", "elements"} :
          LET key == CacheKeyOf(qCategory, qBounds)
              elements == IF answer = "elements" THEN OsmElements(qCategory, key) ELSE << >>
          IN  LoopStep(Append(qTried, Contact(Len(qTried) + 1, answer)),
                       Some([elements |-> elements]), qLastError)

\* the caller takes the outcome
OvpReturn ==
    /\ qpc = "done"
    /\ qpc' = "idle"
    /\ qCompleted' = IF qOutcome.kind = "return"
                     THEN MapSet(qCompleted, CacheKeyOf(qCategory, qBounds), qOutcome.value)
                     ELSE qCompleted
    /\ UNCHANGED <<anchorCache, redZonePOICache, qCategory, qBounds, qTried, qData,
                   qLastError, qOutcome, qCalls>>
    /\ UNCHANGED <<genVars, mxVars, vrpVars, bndVars, appVars>>

OvpInit ==
    /\ GenOff
    /\ MxOff
    /\ VrpOff
    /\ ExtOff
    /\ inaviKey = FALSE

OvpNext ==
    \/ OvpCall
    \/ OvpServerFails
    \/ OvpServerNull
    \/ OvpServerAnswers
    \/ OvpReturn

SpecAnchor == OvpInit /\ [][OvpNext]_vars

(***************************************************************************)
(* ScenarioGenerator.ts: fetchDistrictBoundaries with its two callers.     *)
(* loadPOIs runs once, when App mounts; generateScenario runs on every     *)
(* click of the Scenario button, which is disabled while a generation is   *)
(* loading, so its calls follow one another.                               *)
(***************************************************************************)
MaxGenerations == 3     \* clicks of the Scenario button

CallLimit(c) == IF c = "loadPOIs" THEN 1 ELSE MaxGenerations

\* a fetchDistrictBoundaries call is between its request and its return
InFlight(c) == bCall[c].pc \in {"fetch", "json"}

\* a variant of StartsFetch: a call made while a fetch is pending sends none
StartsFetchUnlessPending(cache, pending) == cache = Null /\ ~pending

\* lines 307-310: only the cache decides whether a request is sent
StartsFetch(cache, pending) == cache = Null

\* the rest of the state of generateScenario, untouched here
genRest == <<count, seed, gpc, cachedSubwayExitPOIs, cachedBusStopPOIs, districtGeoJSON,
             highRiskScooters, commercialLocations, genResult, issued, lastError>>

\* fetchDistrictBoundaries is called (lines 306-317)
BoundaryCall ==
    \E c \in Callers :
        /\ bCall[c].pc = "idle"
        /\ bStarted[c] < CallLimit(c)
        /\ bStarted' = [bStarted EXCEPT ![c] = @ + 1]
        /\ LET pending == \E d \in Callers : InFlight(d)
               sends == StartsFetch(cachedDistrictBoundaries, pending)
           IN  /\ bCall' = [bCall EXCEPT ![c] =
                      [pc |-> IF sends THEN "fetch" ELSE "done",
                       sawEntry |-> cachedDistrictBoundaries # Null,
                       fetched |-> sends,
                       wrote |-> FALSE,
                       result |-> IF sends THEN Null ELSE cachedDistrictBoundaries]]
               /\ bFetches' = IF sends THEN bFetches + 1 ELSE bFetches
               /\ bOverlapped' = (bOverlapped \/ (sends /\ pending))
        /\ UNCHANGED <<cachedDistrictBoundaries, bWrites>>
        /\ UNCHANGED <<genRest, mxVars, vrpVars, ovpVars, appVars>>

\* the response arrives with an OK status (lines 315-323)
BoundaryResponse ==
    \E c \in Callers :
        /\ bCall[c].pc = "fetch"
        /\ bCall' = [bCall EXCEPT ![c].pc = "json"]
        /\ UNCHANGED <<cachedDistrictBoundaries, bStarted, bFetches, bWrites, bOverlapped>>
        /\ UNCHANGED <<genRest, mxVars, vrpVars, ovpVars, appVars>>

\* fetch rejects or the status is not OK (lines 315-321, 341-344)
BoundaryFetchFails ==
    \E c \in Callers :
        /\ bCall[c].pc = "fetch"
        /\ bCall' = [bCall EXCEPT ![c].pc = "failed"]
        /\ UNCHANGED <<cachedDistrictBoundaries, bStarted, bFetches, bWrites, bOverlapped>>
        /\ UNCHANGED <<genRest, mxVars, vrpVars, ovpVars, appVars>>

\* response.json() resolves: filter, store, return (lines 323-339)
BoundaryJson ==
    \E c \in Callers :
        /\ bCall[c].pc = "json"
        /\ LET stored == NewBoundaries(cachedDistrictBoundaries)
           IN  /\ cachedDistrictBoundaries' = Some(stored)
               /\ bCall' = [bCall EXCEPT ![c].pc = "done", ![c].wrote = TRUE,
                                         ![c].result = Some(stored)]
        /\ bWrites' = bWrites + 1
        /\ UNCHANGED <<bStarted, bFetches, bOverlapped>>
        /\ UNCHANGED <<genRest, mxVars, vrpVars, ovpVars, appVars>>

\* response.json() rejects (lines 323, 341-344)
BoundaryJsonFails ==
    \E c \in Callers :
        /\ bCall[c].pc = "json"
        /\ bCall' = [bCall EXCEPT ![c].pc = "failed"]
        /\ UNCHANGED <<cachedDistrictBoundaries, bStarted, bFetches, bWrites, bOverlapped>>
        /\ UNCHANGED <<genRest, mxVars, vrpVars, ovpVars, appVars>>

\* the generation is over and the Scenario button is enabled again
\* (App.tsx, handleGenerateScenario)
BoundaryReturn ==
    /\ bCall["generateScenario"].pc \in {"done", "failed"}
    /\ bCall' = [bCall EXCEPT !["generateScenario"] = NoCall]
    /\ UNCHANGED <<cachedDistrictBoundaries, bStarted, bFetches, bWrites, bOverlapped>>
    /\ UNCHANGED <<genRest, mxVars, vrpVars, ovpVars, appVars>>

BoundaryInit ==
    /\ GenOff
    /\ MxOff
    /\ VrpOff
    /\ ExtOff
    /\ inaviKey = FALSE

BoundaryNext ==
    \/ BoundaryCall
    \/ BoundaryResponse
    \/ BoundaryFetchFails
    \/ BoundaryJson
    \/ BoundaryJsonFails
    \/ BoundaryReturn

SpecBoundary == BoundaryInit /\ [][BoundaryNext]_vars

(***************************************************************************)
(* App.tsx: the Scenario and Optimize buttons.  A handler is one action    *)
(* up to its await and one action from the await on; the state setters of  *)
(* one stretch take effect together.                                       *)
(***************************************************************************)
DefaultTruckCount == 3

\* results solveVrp(pop, hub, k) can resolve with: the routes of the
\* degraded mode, or none when the solver answers with no route
SolveVrpResults(pop, k) == { generateMockRoutes(pop, k), << >> }

appRest == <<genVars, mxVars, vrpVars, ovpVars, bndVars>>

\* handleDepotSelect (lines 86-96)
DepotSelect ==
    /\ ~isOptimizing
    /\ appHubs' = << Hub >>
    /\ errorMessage' = Null
    /\ UNCHANGED <<appScooters, appRoutes, isOptimizing, isLoadingScenario, optArgument>>
    /\ UNCHANGED appRest

\* a click on Scenario, enabled unless isLoadingScenario || isOptimizing:
\* handleGenerateScenario up to its await (lines 71-75)
GenerateClick ==
    /\ ~(isLoadingScenario \/ isOptimizing)
    /\ errorMessage' = Null
    /\ isLoadingScenario' = TRUE
    /\ UNCHANGED <<appScooters, appHubs, appRoutes, isOptimizing, optArgument>>
    /\ UNCHANGED appRest

\* a variant of GenerateResolves: the new population cancels a pending
\* optimization
GenerateResolvesAndCancels ==
    /\ isLoadingScenario
    /\ \E s \in 0..MaxSeed : appScooters' = Scenario(MinCount, s)
    /\ appRoutes' = << >>
    /\ isLoadingScenario' = FALSE
    /\ isOptimizing' = FALSE
    /\ optArgument' = << >>
    /\ UNCHANGED <<appHubs, errorMessage>>
    /\ UNCHANGED appRest

\* generateScenario resolves (lines 75-77, 81-83)
GenerateResolves ==
    /\ isLoadingScenario
    /\ \E s \in 0..MaxSeed : appScooters' = Scenario(MinCount, s)
    /\ appRoutes' = << >>
    /\ isLoadingScenario' = FALSE
    /\ UNCHANGED <<appHubs, isOptimizing, errorMessage, optArgument>>
    /\ UNCHANGED appRest

\* generateScenario rejects (lines 78-83)
GenerateRejects ==
    /\ isLoadingScenario
    /\ errorMessage' = Some("Failed to generate scenario. Check console for details.")
    /\ isLoadingScenario' = FALSE
    /\ UNCHANGED <<appScooters, appHubs, appRoutes, isOptimizing, optArgument>>
    /\ UNCHANGED appRest

\* a click on Optimize, enabled unless isOptimizing: handleOptimize up to
\* its await (lines 101-116)
OptimizeClick ==
    /\ ~isOptimizing
    /\ IF appHubs = << >>
       THEN /\ errorMessage' = Some("Please place a Hub on the map first!")
            /\ UNCHANGED <<isOptimizing, optArgument>>
       ELSE IF appScooters = << >>
       THEN /\ errorMessage' = Some("Please generate scooters first!")
            /\ UNCHANGED <<isOptimizing, optArgument>>
       ELSE /\ isOptimizing' = TRUE
            /\ errorMessage' = Null
            /\ optArgument' = appScooters
    /\ UNCHANGED <<appScooters, appHubs, appRoutes, isLoadingScenario>>
    /\ UNCHANGED appRest

\* solveVrp resolves (lines 116-117, 142-144)
OptimizeResolves ==
    /\ isOptimizing
    /\ \E resultRoutes \in SolveVrpResults(optArgument, DefaultTruckCount) :
          appRoutes' = resultRoutes
    /\ isOptimizing' = FALSE
    /\ optArgument' = << >>
    /\ UNCHANGED <<appScooters, appHubs, isLoadingScenario, errorMessage>>
    /\ UNCHANGED appRest

AppInit ==
    /\ GenOff
    /\ MxOff
    /\ VrpOff
    /\ ExtOff
    /\ inaviKey = FALSE

AppNext ==
    \/ DepotSelect
    \/ GenerateClick
    \/ GenerateResolves
    \/ GenerateRejects
    \/ OptimizeClick
    \/ OptimizeResolves

SpecApp == AppInit /\ [][AppNext]_vars

(***************************************************************************)
(* Properties of generateScenario.                                         *)
(***************************************************************************)
\* the entities of the result that satisfy P
CountWhere(seq, P(_)) == Cardinality({i \in 1..Len(seq) : P(seq[i])})

IsHighRisk(sc) == sc.state = "C"
IsLowBattery(sc) == sc.state = "B"
FromSubway(sc) == sc.placed.batch = "subway"
FromBusStop(sc) == sc.placed.batch = "bus"
FromCommercial(sc) == sc.placed.batch = "commercial"
FromResidential(sc) == sc.placed.batch = "residential"

\* squared distance in square metres
DistSq(p, q) == (p.lat - q.lat) * (p.lat - q.lat) + (p.lng - q.lng) * (p.lng - q.lng)

\* C1: a completed generateScenario(N), N in 10..200, returns exactly
\* max(1, floor(0.15 N)) state-C entities and floor(0.65 N) + floor(0.20 N)
\* state-B entities (the first placed around commercial, the second around
\* residential anchors) and nothing else; of the h state-C entities
\* floor(0.25 h) are anchored at bus stops and the rest at subway entrances.
C1_Counts ==
    gpc = "done" =>
        LET h == IF (15 * count) \div 100 >= 1 THEN (15 * count) \div 100 ELSE 1
            c == (65 * count) \div 100
            r == (20 * count) \div 100
            b == (25 * h) \div 100
        IN  /\ CountWhere(genResult, IsHighRisk) = h
            /\ CountWhere(genResult, IsLowBattery) = c + r
            /\ Len(genResult) = h + c + r
            /\ CountWhere(genResult, FromCommercial) = c
            /\ CountWhere(genResult, FromResidential) = r
            /\ CountWhere(genResult, FromBusStop) = b
            /\ CountWhere(genResult, FromSubway) = h - b
            /\ \A i \in 1..Len(genResult) :
                  /\ IsHighRisk(genResult[i]) <=> (FromSubway(genResult[i]) \/ FromBusStop(genResult[i]))
                  /\ IsLowBattery(genResult[i]) <=>
                        (FromCommercial(genResult[i]) \/ FromResidential(genResult[i]))

\* a completed call whose high-risk entities come from both kinds of anchor
C1_Witness ==
    /\ gpc = "done"
    /\ count = 199
    /\ CountWhere(genResult, FromBusStop) = 7
    /\ CountWhere(genResult, FromSubway) = 22
    /\ CountWhere(genResult, IsLowBattery) = 168

\* C2: every entity a completed generateScenario returns has its location
\* inside the boundary set, be it an accepted candidate or the anchor itself.
C2_Inside ==
    gpc = "done" =>
        \A i \in 1..Len(genResult) :
            isPointInDistricts(genResult[i].location, The(cachedDistrictBoundaries))

\* a result with an entity at its anchor after ten rejected candidates and
\* an entity accepted after at least one rejected candidate
C2_Witness ==
    /\ gpc = "done"
    /\ \E i \in 1..Len(genResult) :
          /\ genResult[i].placed.fallback
          /\ genResult[i].placed.attempts = MaxAttempts
          /\ genResult[i].location = genResult[i].placed.anchor
    /\ \E i \in 1..Len(genResult) :
          /\ ~genResult[i].placed.fallback
          /\ genResult[i].placed.attempts > 1

\* C3 (as claimed): every high-risk entity of a completed generateScenario
\* lies within 5 m of a red-zone anchor.
C3_Within5m ==
    gpc = "done" =>
        \A i \in 1..Len(genResult) :
            IsHighRisk(genResult[i]) =>
                LET anchors == The(cachedSubwayExitPOIs) \o The(cachedBusStopPOIs)
                IN  \E k \in 1..Len(anchors) :
                        DistSq(genResult[i].location, anchors[k])
                            <= DocumentedRedZoneMeters * DocumentedRedZoneMeters

(***************************************************************************)
(* Properties of getDistanceMatrix.                                        *)
(***************************************************************************)
RemoteUnavailable ==
    {"none", "network error", "non-OK status", "unparsable body", "unrecognized body"}

\* C5: getDistanceMatrix never raises; whatever the list and whatever the
\* matrix service does it returns a matrix pair, the locally computed one
\* whenever the remote result is unavailable; with fewer than 3 locations
\* or without a credential the service is not contacted.
C5_NeverRaises ==
    /\ mpc # "raised"
    /\ mpc = "returned" =>
          /\ DOMAIN mResult = {"distanceMatrix", "durationMatrix"}
          /\ mRemote \in RemoteUnavailable \cup {"matrices"}
          /\ mRemote \in RemoteUnavailable =>
                mResult = calculateEuclideanMatrices(mLocations)
    /\ (Len(mLocations) < 3 \/ ~inaviKey) => mRemote = "none"

\* the service was asked and answered with a body the code cannot use
C5_Witness ==
    /\ mpc = "returned"
    /\ inaviKey
    /\ Len(mLocations) = 3
    /\ mRemote = "unrecognized body"
    /\ mResult = calculateEuclideanMatrices(mLocations)
    /\ mResult.distanceMatrix[1][2] > 0

\* the matrix m is square with side n, has a zero diagonal and holds only
\* non-negative integers
WellFormedMatrix(m, n) ==
    /\ Len(m) = n
    /\ \A i \in 1..Len(m) :
          /\ Len(m[i]) = n
          /\ \A j \in 1..Len(m[i]) :
                /\ IsInteger(m[i][j])
                /\ m[i][j] >= 0
                /\ i = j => m[i][j] = 0

\* C6 (as claimed): every matrix pair getDistanceMatrix returns is square
\* with side the number of locations, has a zero diagonal and holds only
\* non-negative integers.
C6_WellFormed ==
    mpc = "returned" =>
        /\ WellFormedMatrix(mResult.distanceMatrix, Len(mLocations))
        /\ WellFormedMatrix(mResult.durationMatrix, Len(mLocations))

(***************************************************************************)
(* Properties of solveVrp.                                                 *)
(***************************************************************************)
SolverFailed == {"network error", "non-OK status"}

\* field f summed over the routes solveVrp resolved with
RoutesTotal(f) == SumSeq([r \in 1..Len(routes) |-> routes[r][f]])

WithinCap == {scooters[i].id : i \in 1..Min(Len(scooters), LocationCap - 1)}

\* C7 (as claimed): with more than 200 locations solveVrp uses exactly 200,
\* the depot and the first 199 entities, and no entity beyond the cap is
\* on any route solveVrp returns.
C7_CapRespected ==
    (vpc # "idle" /\ Len(scooters) + 1 > LocationCap) =>
        /\ Len(mLocations) = LocationCap
        /\ mLocations[1] = Hub.location
        /\ workingScooters = SubSeq(scooters, 1, LocationCap - 1)
        /\ vpc = "done" =>
              \A r \in 1..Len(routes) :
                  \A e \in 1..Len(routes[r].entities) : routes[r].entities[e] \in WithinCap

\* C8 (as claimed): for every route solveVrp returns, totalScore equals
\* revenueCollected + finesAvoided.
C8_ScoreIdentity ==
    vpc = "done" =>
        \A r \in 1..Len(routes) :
            JsEq(routes[r].totalScore,
                 JsAdd(routes[r].revenueCollected, routes[r].finesAvoided))

TotalPotentialValue == SumSeq([i \in 1..Len(scooters) |-> scooters[i].score])

\* C10 (as claimed): for a fleet of k vehicles solveVrp returns at most k
\* routes, each visiting at least one entity; their scootersCollected sum to
\* at most the population size and their totalScore to at most the
\* population's total potential value.
C10_FleetBounds ==
    vpc = "done" =>
        /\ Len(routes) <= truckCount
        /\ \A r \in 1..Len(routes) : routes[r].scootersCollected >= 1
        /\ RoutesTotal("scootersCollected") <= Len(scooters)
        /\ JsLeq(RoutesTotal("totalScore"), TotalPotentialValue)

(***************************************************************************)
(* Properties of buildVrpRequest.                                          *)
(***************************************************************************)
\* the request solveVrp builds at line 48 and sends at line 53: its
\* arguments are locals of solveVrp that keep their value until it settles
vrpRequest ==
    buildVrpRequest(workingScooters, truckCount, mResult.distanceMatrix,
                    mResult.durationMatrix)

\* the request has been built and sent
RequestSent == vpc \in {"solver", "solver json", "solver text", "parse", "done"} /\ solver # "none"

\* C11 (as claimed): buildVrpRequest emits exactly one visit per entity it
\* is given, in the same order; each visit carries the entity's id and
\* coordinate, capacity weight 0 for a high-risk and 1 for a low-battery
\* entity, the entity's service duration, and an unassigned penalty equal
\* to the monetary value the scenario generator gave the entity.
C11_VisitPerEntity ==
    RequestSent =>
        /\ Len(vrpRequest.visits) = Len(workingScooters)
        /\ \A i \in 1..Len(workingScooters) :
              /\ vrpRequest.visits[i].name = workingScooters[i].id
              /\ vrpRequest.visits[i].coordinate = workingScooters[i].location
              /\ vrpRequest.visits[i].volume = (IF IsHighRisk(workingScooters[i]) THEN 0 ELSE 1)
              /\ vrpRequest.visits[i].service_time = workingScooters[i].service_time
              /\ vrpRequest.visits[i].unassigned_penalty = workingScooters[i].score

\* C11, all but the penalty: the part of the claim the code keeps
C11_VisitShape ==
    RequestSent =>
        /\ Len(vrpRequest.visits) = Len(workingScooters)
        /\ \A i \in 1..Len(workingScooters) :
              /\ vrpRequest.visits[i].name = workingScooters[i].id
              /\ vrpRequest.visits[i].coordinate = workingScooters[i].location
              /\ vrpRequest.visits[i].volume = (IF IsHighRisk(workingScooters[i]) THEN 0 ELSE 1)
              /\ vrpRequest.visits[i].service_time = workingScooters[i].service_time

(***************************************************************************)
(* Properties of the boundary cache and of the failures of                 *)
(* generateScenario.                                                       *)
(***************************************************************************)
\* C12: once fetchDistrictBoundaries has completed successfully, every
\* later call returns the very object that is cached (the cache is never
\* replaced) and sends no boundary request.
C12_CachedBoundaries ==
    [][cachedDistrictBoundaries # Null =>
          /\ cachedDistrictBoundaries' = cachedDistrictBoundaries
          /\ "boundary fetch" \in issued' => "boundary fetch" \in issued
          /\ (gpc = "boundaries" /\ gpc' # "boundaries") =>
                districtGeoJSON' = The(cachedDistrictBoundaries)]_vars

\* a later call has the object the first call cached and has sent no
\* boundary request
C12_Witness ==
    /\ gpc = "commercial"
    /\ "boundary fetch" \notin issued
    /\ cachedDistrictBoundaries # Null
    /\ districtGeoJSON = The(cachedDistrictBoundaries)
    /\ districtGeoJSON.ref = 1

\* generateScenario is past its boundary step
PastBoundaries == gpc \in {"redzone", "commercial", "residential", "done"}

\* C13: when the boundary fetch fails generateScenario fails with that
\* error, the boundary cache stays empty, no anchor query has been made and
\* no entity produced; generation goes on only with the fetched boundaries,
\* never with a substitute; the next call sends the boundary request again.
C13_BoundaryFailure ==
    /\ (gpc = "failed" /\ lastError = "boundary fetch failed") =>
          /\ cachedDistrictBoundaries = Null
          /\ districtGeoJSON = NoBoundaries
          /\ issued = {"boundary fetch"}
          /\ highRiskScooters = << >>
          /\ commercialLocations = << >>
          /\ genResult = << >>
    /\ PastBoundaries =>
          /\ cachedDistrictBoundaries # Null
          /\ districtGeoJSON = The(cachedDistrictBoundaries)
          /\ districtGeoJSON.features = FilteredBoundaries.features
    /\ (gpc = "boundaries" /\ lastError = "boundary fetch failed") =>
          /\ cachedDistrictBoundaries = Null
          /\ "boundary fetch" \in issued

\* the call after a failed boundary fetch has sent the request again
C13_Witness ==
    /\ gpc = "boundaries"
    /\ lastError = "boundary fetch failed"
    /\ cachedDistrictBoundaries = Null
    /\ issued = {"boundary fetch"}

\* C14 (as claimed): the failure of an anchor query is never surfaced to
\* the caller of generateScenario: generateScenario does not fail with the
\* error of an anchor query.
C14_AnchorFailureHidden ==
    gpc = "failed" => lastError # "anchor query failed"

\* C15 (as claimed): with an empty anchor set for a category
\* generateScenario still completes; it does not fail on the missing
\* anchor, and what it returns has the category counts of the claim C1.
C15_EmptyAnchorsComplete ==
    /\ gpc = "failed" => lastError # "TypeError"
    /\ gpc = "done" => Len(genResult) = countHighRiskOf(count) + countCommercialOf(count)
                                         + countResidentialOf(count)

(***************************************************************************)
(* Properties of the degraded mode and of the statistics of a route.       *)
(***************************************************************************)
\* the routes are those of generateMockRoutes
FromMockRouter ==
    \E r \in 1..Len(routes) : routes[r].vehicleId[1] = "Mock-Truck"

\* the routes are read from the solver response, one per route of it
FromSolverResponse ==
    /\ Len(routes) = Len(vrpResponse.routes)
    /\ \A r \in 1..Len(routes) : routes[r].vehicleId = vrpResponse.routes[r].vehicle_name

\* C16 (as claimed): whenever the solver call returned a successful
\* response, the routes solveVrp returns are derived from that response and
\* never from generateMockRoutes, also when the matrix provider had fallen
\* back to the local matrices.
C16_MockOnlyOnSolverFailure ==
    (vpc = "done" /\ solver = "routes") =>
        /\ ~FromMockRouter
        /\ FromSolverResponse

\* the ids on the routes, route after route
RECURSIVE EntitiesFrom(_)
EntitiesFrom(r) ==
    IF r > Len(routes) THEN << >> ELSE routes[r].entities \o EntitiesFrom(r + 1)

\* the scooter of the population with the id `id`
ScooterOf(id) == scooters[FindScooter(id, scooters)]

\* solveVrp resolved with the routes of the degraded mode
MockResult == vpc = "done" /\ solver \in SolverFailed

\* the truck number of a mock route
TruckOf(r) == routes[r].vehicleId[2]

\* C17, all but the order: the degraded mode cuts the order it works on
\* into contiguous chunks of size ceil(n/k), gives chunk i to vehicle i,
\* emits no route for an empty chunk, builds each path as depot, the
\* chunk's locations in order, depot; every entity is on exactly one route;
\* a route's distance is 2000 per stop and its duration the sum of its
\* stops' service durations plus 300 s per stop.
C17_MockShape ==
    MockResult =>
        LET n == Len(scooters)
            size == CeilDiv(n, truckCount)
            all == EntitiesFrom(1)
        IN  /\ Len(all) = n
            /\ \A i \in 1..n : Cardinality({j \in 1..Len(all) : all[j] = scooters[i].id}) = 1
            /\ \A r \in 1..Len(routes) :
                  LET ids == routes[r].entities
                      stops == Len(ids)
                  IN  /\ routes[r].vehicleId[1] = "Mock-Truck"
                      /\ TruckOf(r) \in 1..truckCount
                      /\ r > 1 => TruckOf(r) > TruckOf(r - 1)
                      /\ stops >= 1
                      /\ stops = Min(size, n - (TruckOf(r) - 1) * size)
                      /\ \A j \in 1..stops : ids[j] = all[(TruckOf(r) - 1) * size + j]
                      /\ routes[r].path =
                            << Hub.location >> \o [j \in 1..stops |-> ScooterOf(ids[j]).location]
                            \o << Hub.location >>
                      /\ routes[r].distance = Whole(ChunkMetres * stops)
                      /\ routes[r].duration =
                            Whole(SumSeq([j \in 1..stops |-> ScooterOf(ids[j]).service_time * 60])
                                  + TravelSeconds * stops)

\* C17 (as claimed): the above, over the entities in the order of
\* descending monetary value.
C17_MockAlgorithm ==
    /\ C17_MockShape
    /\ MockResult =>
          LET all == EntitiesFrom(1)
          IN  \A j \in 1..(Len(all) - 1) :
                  ScooterOf(all[j]).score >= ScooterOf(all[j + 1]).score

\* the capacity weight of the visits of route r, as buildVrpRequest weighs
\* them: 0 for a high-risk entity, 1 for any other
CapacityWeight(r) ==
    Cardinality({j \in 1..Len(routes[r].entities) :
                    ~IsHighRisk(ScooterOf(routes[r].entities[j]))})

\* C18 (as claimed): in every route solveVrp returns, the capacity weight
\* given to the vehicle never exceeds the vehicle capacity of 20.
C18_CapacityRespected ==
    vpc = "done" =>
        \A r \in 1..Len(routes) : CapacityWeight(r) <= VehicleCapacity

\* solveVrp resolved with routes read from the solver response
ParsedResult == vpc = "done" /\ solver = "routes" /\ ~FromMockRouter /\ FromSolverResponse

\* the stop names of route r of the response
NamesOf(r) == vrpResponse.routes[r].route_name

\* the positions of route r that name a known entity of a state in `states`
VisitsOf(r, states) ==
    {p \in 1..Len(NamesOf(r)) :
        /\ NamesOf(r)[p] # Hub.name
        /\ FindScooter(NamesOf(r)[p], workingScooters) # 0
        /\ workingScooters[FindScooter(NamesOf(r)[p], workingScooters)].state \in states}

\* the entity named at position p of route r
VisitedAt(r, p) == workingScooters[FindScooter(NamesOf(r)[p], workingScooters)]

\* f summed over the positions of route r that name a known entity of a
\* state in `states`
SumOverVisits(r, states, f(_)) ==
    LET names == NamesOf(r)
    IN  SumSeq([p \in 1..Len(names) |->
                   IF p \in VisitsOf(r, states) THEN f(VisitedAt(r, p)) ELSE 0])

\* the matrix entries of the consecutive stop pairs of route r, summed;
\* a pair with a name that is neither the depot nor a known entity has no
\* entry
TravelOf(r, matrix) ==
    LET names == NamesOf(r)
        Known(p) == NameIndex(names[p], workingScooters) # 0
        Entry(p) ==
            IF Known(p) /\ Known(p + 1)
                  /\ NameIndex(names[p], workingScooters) <= Len(matrix)
                  /\ NameIndex(names[p + 1], workingScooters)
                        <= Len(matrix[NameIndex(names[p], workingScooters)])
            THEN matrix[NameIndex(names[p], workingScooters)]
                       [NameIndex(names[p + 1], workingScooters)]
            ELSE 0
    IN  SumSeq([p \in 1..(Len(names) - 1) |-> OrZero(Entry(p))])

ScoreOf(sc) == sc.score
ServiceSecondsOf(sc) == Whole(sc.service_time * 60)
AllStates == {"A", "B", "C"}

\* C19 (as claimed): in a route read from a solver response every position
\* that names a known entity, the first included, counts once in
\* scootersCollected, in the visited count of its category, in
\* revenueCollected or finesAvoided, and with its service duration in the
\* duration; depot names and unknown names count for nothing.
C19_EveryPositionCounts ==
    ParsedResult =>
        \A r \in 1..Len(routes) :
            /\ routes[r].scootersCollected = Cardinality(VisitsOf(r, AllStates))
            /\ routes[r].highRiskCollected = Cardinality(VisitsOf(r, {"C"}))
            /\ routes[r].lowBatteryCollected = Cardinality(VisitsOf(r, {"B"}))
            /\ routes[r].duration =
                  JsAdd(TravelOf(r, mResult.durationMatrix),
                        SumOverVisits(r, AllStates, ServiceSecondsOf))
            /\ JsEq(routes[r].revenueCollected, SumOverVisits(r, {"B"}, ScoreOf))
            /\ JsEq(routes[r].finesAvoided, SumOverVisits(r, {"C"}, ScoreOf))

\* the service durations the parser adds to the duration of route r: those
\* of the known entities named after the first position
ServiceCounted(r) ==
    LET names == NamesOf(r)
    IN  SumSeq([p \in 1..(Len(names) - 1) |->
                   IF p + 1 \in VisitsOf(r, AllStates)
                   THEN ServiceSecondsOf(VisitedAt(r, p + 1)) ELSE 0])

\* C20 (as claimed): for every route read from a solver response the
\* distance is the sum, over the consecutive stop pairs, of the entries of
\* the distance matrix sent in the request, and the travel part of the
\* duration the same sum over the duration matrix of the request, with the
\* remote matrices as with the local ones.
C20_SameMatrices ==
    ParsedResult =>
        \A r \in 1..Len(routes) :
            /\ routes[r].distance = TravelOf(r, vrpRequest.distance_matrix)
            /\ routes[r].duration =
                  JsAdd(TravelOf(r, vrpRequest.duration_matrix), ServiceCounted(r))

(***************************************************************************)
(* Properties of the anchor queries.                                       *)
(***************************************************************************)
\* the endpoints of this call that gave no response object
GaveNoData(i) == qTried[i].answer \notin {"no elements", "elements"}

\* the endpoints of this call that raised an error
Raised == {i \in 1..Len(qTried) : qTried[i].answer \in ServerErrors}

\* the largest member of a non-empty set of numbers
Last(S) == CHOOSE i \in S : \A j \in S : j <= i

QueryKey == CacheKeyOf(qCategory, qBounds)

C22_CachedAfterCompletion ==
    /\ (qpc = "done" /\ qOutcome.kind = "return") =>
          /\ MapHas(CacheOf(qCategory), QueryKey)
          /\ MapGet(CacheOf(qCategory), QueryKey) = qOutcome.value
    /\ (qpc = "done" /\ MapHas(qCompleted, QueryKey)) =>
          /\ qTried = << >>
          /\ qOutcome = [kind |-> "return", value |-> MapGet(qCompleted, QueryKey)]
    /\ \A e \in anchorCache : e[1][1] \in {"commercial", "residential"}
    /\ \A e \in redZonePOICache : e[1][1] = "redzone"

\* the coordinate of a member of a query result
CoordinateOf(category, anchor) ==
    IF category = "redzone" THEN anchor.location ELSE anchor

NoCoincident(category, value) ==
    \A i, j \in 1..Len(value) :
        CoordinateOf(category, value[i]) = CoordinateOf(category, value[j]) => i = j

\* C23: no result of an anchor query, returned or cached, holds two anchors
\* at the same coordinate.
C23_NoCoincidentAnchors ==
    /\ (qpc = "done" /\ qOutcome.kind = "return") => NoCoincident(qCategory, qOutcome.value)
    /\ \A e \in anchorCache \cup redZonePOICache : NoCoincident(e[1][1], e[2])

(***************************************************************************)
(* Properties of the road geometry.                                        *)
(***************************************************************************)
\* the two-point straight line of segment i of a path
StraightLine(path, i) == << path[i], path[i + 1] >>

\* every segment of a path replaced by its straight line
AllStraight(path) == [i \in 1..(Len(path) - 1) |-> StraightLine(path, i)]

\* C24: a geometry request that fails leaves the straight line of its own
\* segment and nothing else: every segment fetched so far joins its two
\* stops, a parsed route has one segment per consecutive pair of waypoints,
\* its figures are those of the route with every request failed, and a
\* solver answer is replaced by mock routes only when the statistics of a
\* route throw whatever the geometry is.
C24_GeometryDegrades ==
    /\ vpc = "parse" =>
          \A r \in 1..Len(roadGeometry) :
              LET path == WaypointsOf(vrpResponse.routes[r].route_name, workingScooters)
              IN  /\ Len(roadGeometry[r]) <= Len(path) - 1
                  /\ \A i \in 1..Len(roadGeometry[r]) :
                        \/ roadGeometry[r][i] = StraightLine(path, i)
                        \/ Len(roadGeometry[r][i]) > 2
    /\ ParsedResult =>
          \A r \in 1..Len(routes) :
              /\ Len(routes[r].roadGeometry) = Max(0, Len(routes[r].path) - 1)
              /\ \A i \in 1..Len(routes[r].roadGeometry) :
                    \/ routes[r].roadGeometry[i] = StraightLine(routes[r].path, i)
                    \/ Len(routes[r].roadGeometry[i]) > 2
              /\ [routes[r] EXCEPT !.roadGeometry = AllStraight(routes[r].path)]
                    = StatsOf(vrpResponse, r, AllStraight(routes[r].path)).value
    /\ (vpc = "done" /\ solver = "routes" /\ FromMockRouter) =>
          \E r \in 1..Len(vrpResponse.routes) : StatsOf(vrpResponse, r, << >>).kind = "throw"

\* a parsed route in which one geometry request failed and another did not
C24_Witness ==
    /\ ParsedResult
    /\ \E r \in 1..Len(routes) :
          \E i, j \in 1..Len(routes[r].roadGeometry) :
              /\ routes[r].roadGeometry[i] = StraightLine(routes[r].path, i)
              /\ Len(routes[r].roadGeometry[j]) > 2

(***************************************************************************)
(* Properties of the order of the remote requests.                         *)
(***************************************************************************)
\* the geometry requests of route r issued so far: the settled ones and
\* the one the loop is waiting for
GeometryIssued(r) ==
    IF parsedRoutes[r] # Null THEN Len(roadGeometry[r])
    ELSE Len(roadGeometry[r]) + 1

AnchorQueries == {"red-zone query", "commercial query", "residential query"}

\* C25: while a route is being parsed the geometry requests of all its
\* consecutive stop pairs have been issued, none waiting for another's
\* result; and a generateScenario call that has issued one anchor query has
\* issued the commercial and the residential query too.
C25_IssuedTogether ==
    /\ vpc = "parse" =>
          \A r \in 1..Len(vrpResponse.routes) :
              GeometryIssued(r) = SegmentsOf(vrpResponse.routes[r])
    /\ issued \cap AnchorQueries # {} =>
          {"commercial query", "residential query"} \subseteq issued

(***************************************************************************)
(* Properties of the boundary cache under two callers.                     *)
(***************************************************************************)
\* C26: without overlapping first calls the boundary cache is written at
\* most once; a call that found no entry sends its own request, also while
\* another call's request is pending, and writes the cache when its
\* response is parsed, so two overlapping first calls make two fetches and
\* two writes; a call that found an entry sends no request, writes nothing
\* and returns the entry.
C26_BoundaryCachePopulation ==
    /\ ~bOverlapped => bWrites <= 1
    /\ \A c \in Callers :
          /\ (bCall[c].pc # "idle" /\ ~bCall[c].sawEntry) => bCall[c].fetched
          /\ (bCall[c].pc = "done" /\ ~bCall[c].sawEntry) => bCall[c].wrote
          /\ (bCall[c].pc # "idle" /\ bCall[c].sawEntry) =>
                /\ ~bCall[c].fetched
                /\ ~bCall[c].wrote
                /\ bCall[c].pc = "done"
                /\ bCall[c].result # Null
    /\ bWrites <= bFetches
    /\ (\A c \in Callers : bCall[c].pc = "done" /\ ~bCall[c].sawEntry) =>
          (bFetches >= 2 /\ bWrites >= 2)

\* the mount-time call and a generation both started before any entry
\* existed, both fetched and both wrote the cache, the second write
\* replacing the object of the first
C26_Witness ==
    /\ \A c \in Callers : bCall[c].pc = "done" /\ ~bCall[c].sawEntry /\ bCall[c].wrote
    /\ bOverlapped
    /\ bFetches = 2
    /\ bWrites = 2
    /\ bCall["loadPOIs"].result # bCall["generateScenario"].result

(***************************************************************************)
(* Properties of App.                                                      *)
(***************************************************************************)
\* the locations of a population
LocationsIn(pop) == {pop[i].location : i \in 1..Len(pop)}

\* the stops of the displayed routes that are no depot
DisplayedStops ==
    UNION { {appRoutes[r].path[i] : i \in 1..Len(appRoutes[r].path)} :
                r \in 1..Len(appRoutes) } \ {Hub.location}

\* C27: a generation that settles while an optimization is pending leaves
\* that optimization pending on the population it was started with, and
\* when the optimization resolves the routes installed are the ones
\* solveVrp computed from that population, whatever the population is by
\* then.
C27_NoCancellation ==
    [][ /\ (isOptimizing /\ isLoadingScenario /\ ~isLoadingScenario') =>
              (isOptimizing' /\ optArgument' = optArgument)
        /\ (isOptimizing /\ ~isOptimizing') =>
              appRoutes' \in SolveVrpResults(optArgument, DefaultTruckCount)
      ]_vars

\* no call is pending, the population is the one a generation installed
\* after the optimization had started, and the displayed routes stop at
\* places where no entity of it is
C27_Witness ==
    /\ ~isOptimizing
    /\ ~isLoadingScenario
    /\ appScooters # << >>
    /\ appRoutes # << >>
    /\ DisplayedStops \cap LocationsIn(appScooters) = {}

(***************************************************************************)
(* services/ContextBuilder.ts: extractFinancialStats, as handleOptimize    *)
(* calls it on the population and the routes of solveVrp.                  *)
(***************************************************************************)
COST_PER_TRUCK == 60000

\* a - b of two numbers
JsSub(a, b) == IF a = NaN \/ a = Undefined \/ b = NaN \/ b = Undefined THEN NaN ELSE a - b

\* Math.max(a, b): NaN when either is NaN
MathMax(a, b) == IF a = NaN \/ a = Undefined \/ b = NaN \/ b = Undefined THEN NaN ELSE Max(a, b)

extractFinancialStats(pop, rts, k, costPerTruck) ==
    LET Total(f) == SumSeq([r \in 1..Len(rts) |-> rts[r][f]])
        highRiskCount == CountOf(pop, "C")
        lowBatteryCount == CountOf(pop, "B")
        totalPenaltySaved == Total("totalScore")
        visitedHighRiskCount == Total("highRiskCollected")
        visitedLowBatteryCount == Total("lowBatteryCollected")
        operationalCost == k * costPerTruck
        totalPotentialPenalty ==
            SumSeq([i \in 1..Len(pop) |-> OrZero(PenaltyValueOf(pop[i]))])
    IN  [netLossPrevented |-> JsSub(totalPenaltySaved, operationalCost),
         totalPenaltySaved |-> totalPenaltySaved,
         finesAvoided |-> Total("finesAvoided"),
         inventorySaved |-> Total("revenueCollected"),
         operationalCost |-> operationalCost,
         remainingRisk |-> MathMax(0, JsSub(totalPotentialPenalty, totalPenaltySaved)),
         visitedHighRiskCount |-> visitedHighRiskCount,
         visitedLowBatteryCount |-> visitedLowBatteryCount,
         missedHighRiskCount |-> MathMax(0, highRiskCount - visitedHighRiskCount),
         missedLowBatteryCount |-> MathMax(0, lowBatteryCount - visitedLowBatteryCount)]

\* the financial summary handleOptimize derives from the result of solveVrp
Financials == extractFinancialStats(scooters, routes, truckCount, COST_PER_TRUCK)

\* the entities of a category that are on some route of the result
VisitedOf(state) ==
    LET ids == EntitiesFrom(1)
    IN  {ids[i] : i \in {j \in 1..Len(ids) : ScooterOf(ids[j]).state = state}}

\* C28: in the financial summary of a result the missed count of each
\* category is the number of entities generated in it minus the number
\* visited, and the remaining risk is the value of the missed entities,
\* missedHighRisk * 40000 + missedLowBattery * 5000.
C28_MissedAndRemainingRisk ==
    vpc = "done" =>
        /\ Financials.missedHighRiskCount
              = CountOf(scooters, "C") - Cardinality(VisitedOf("C"))
        /\ Financials.missedLowBatteryCount
              = CountOf(scooters, "B") - Cardinality(VisitedOf("B"))
        /\ JsEq(Financials.remainingRisk,
                Financials.missedHighRiskCount * TOWING_FINE
                    + Financials.missedLowBatteryCount * BATTERY_SWAP_REVENUE)

(***************************************************************************)
(* Properties of generateValidPointNearAnchor.                             *)
(***************************************************************************)
\* candidate a (0-based) of the placement p in the random stream s
CandidateOf(p, s, a) ==
    generatePointNearLocation(p.anchor, p.minRadius, p.maxRadius,
                              Rnd(s, p.first + 2 * a), Rnd(s, p.first + 2 * a + 1))

Accepted(p, s, a) == isPointInDistricts(CandidateOf(p, s, a), districtGeoJSON)

\* C29: placing an entity samples at most 10 candidates; the point returned
\* is the first candidate that passes the boundary test, every candidate
\* sampled before it having failed, or, after 10 candidates that all
\* failed, the anchor's own coordinate.
C29_PlacementTerminates ==
    gpc = "done" =>
        \A i \in 1..Len(genResult) :
            LET p == genResult[i].placed
            IN  /\ p.attempts \in 1..10
                /\ \A a \in 0..(p.attempts - 2) : ~Accepted(p, seed, a)
                /\ IF p.fallback
                   THEN /\ p.attempts = 10
                        /\ ~Accepted(p, seed, 9)
                        /\ genResult[i].location = p.anchor
                   ELSE /\ Accepted(p, seed, p.attempts - 1)
                        /\ genResult[i].location = CandidateOf(p, seed, p.attempts - 1)

\* a result with an entity placed at its first candidate, one placed at its
\* third or a later candidate and one left at its anchor after 10 candidates
C29_Witness ==
    /\ gpc = "done"
    /\ \E i \in 1..Len(genResult) :
          ~genResult[i].placed.fallback /\ genResult[i].placed.attempts = 1
    /\ \E j \in 1..Len(genResult) :
          ~genResult[j].placed.fallback /\ genResult[j].placed.attempts >= 3
    /\ \E k \in 1..Len(genResult) :
          genResult[k].placed.fallback /\ genResult[k].location = genResult[k].placed.anchor

(***************************************************************************)
(* Properties of the red-zone sets of generateScenario.                    *)
(***************************************************************************)
\* C30: once a generateScenario call has stored the subway-entrance and
\* bus-stop sets, empty or not, they are never stored again, no later call
\* issues a red-zone query, and a later call places its high-risk entities
\* from exactly the stored sets.
C30_RedZoneStoredOnce ==
    [][(cachedSubwayExitPOIs # Null /\ cachedBusStopPOIs # Null) =>
          /\ cachedSubwayExitPOIs' = cachedSubwayExitPOIs
          /\ cachedBusStopPOIs' = cachedBusStopPOIs
          /\ "red-zone query" \in issued' => "red-zone query" \in issued
          /\ (gpc = "boundaries" /\ gpc' = "commercial") =>
                highRiskScooters' = HighRiskBatch(count, The(cachedSubwayExitPOIs),
                                                  The(cachedBusStopPOIs),
                                                  districtGeoJSON', seed)]_vars

\* a later call found an empty subway-entrance set stored, made no remote
\* request and failed on the empty set
C30_Witness ==
    /\ gpc = "failed"
    /\ lastError = "TypeError"
    /\ issued = {}
    /\ cachedSubwayExitPOIs = Some(<< >>)
    /\ cachedBusStopPOIs # Null

====
